---------------------------- MODULE Spec2Model ----------------------------
(***************************************************************************)
(* A model of the funding-arbitrage repository:                            *)
(*   - backtest.run_backtest, the position lifecycle engine replaying a    *)
(*     historical funding-rate series (specification SpecBT);              *)
(*   - execution/executor.py, the two-leg execution coordinator            *)
(*     ArbExecutor over ExchangeClient venues (specification SpecExec,     *)
(*     and SpecExecLive with the scheduling of the event loop);            *)
(*   - monitor.py and fetch_funding.py, the fan-out fetch over the four    *)
(*     venues and the monitoring loop (specification SpecMon);             *)
(*   - models/opportunity_scorer.py and monitor.find_opportunities, the    *)
(*     two scorers on one list of rate records (specification SpecScore).  *)
(*                                                                         *)
(* Units.  Rates and cost fractions are integers in units of 1e-6 (a rate  *)
(* of -0.0015 is -1500); position_size is in dollars, so money amounts     *)
(* (rate x position_size) are integers in units of 1e-6 dollar.  The       *)
(* arithmetic is exact: floating-point rounding is not modelled.  Ratios   *)
(* the code computes with "/" are kept as numerator/denominator records.   *)
(***************************************************************************)
EXTENDS Integers, Sequences, FiniteSets, Bags, TLC

VARIABLES
    \* ---- backtest.run_backtest ----
    funding_data,     \* the input series: records [fundingTime, fundingRate]
    config,           \* the BacktestConfig the run was given
    bt_pc,            \* "start" | "loop" | "done"
    df,               \* the series sorted by timestamp (the DataFrame)
    i,                \* the row index of the loop, 0-based as in pandas
    position_open,
    entry_rate,
    entry_idx,
    trades,
    total_pnl,
    total_funding,
    total_costs,
    result,           \* the returned dict, NoResult until the run returns
    events,           \* history: the Idle->Open / Open->Closed transitions taken
    \* ---- deep_analysis.simulate_realistic_strategy ----
    strategies,       \* the results dict of simulate_realistic_strategy on funding_data
    \* ---- execution/executor.py ----
    positions,        \* SimulatedClient.positions of each configured client
    orders,           \* SimulatedClient.orders of each configured client
    active_positions, \* ArbExecutor.active_positions: id -> ArbPosition
    now,              \* the latest int(time.time()) read, in whole seconds
    calls,            \* the open_position / close_position coroutines started
    \* ---- models/opportunity_scorer.py ----
    scorer_config,    \* the Config the OpportunityScorer was constructed with
    rates,            \* the list of rate records score_all is called with
    sc_pc,            \* "start" | "loop" | "done"
    utcnow,           \* the latest datetime.utcnow() read
    scored,           \* history: the calls of calculate_opportunity and their results
    opportunities,    \* the list score_all builds and returns
    \* ---- monitor.py, fetch_funding.py ----
    program,          \* "monitor" (monitor_loop) | "fetch_funding" (main)
    mon_pc,           \* "start" | "fetching" | "fetched" | "sleeping" | "cancelled" | "done" | "crashed"
    tasks,            \* the venue calls of the gather of the current scan
    fetched,          \* what the aggregate fetch gave its awaiter
    scan_opportunities, \* the opportunities of the latest scan
    snapshots,        \* the records save_snapshot has appended
    scans,            \* number of scans started
    funding_rates_json  \* the rates main has saved to funding_rates.json

btVars == << funding_data, config, bt_pc, df, i, position_open, entry_rate,
             entry_idx, trades, total_pnl, total_funding, total_costs, result,
             events, strategies >>

execVars == << positions, orders, active_positions, now, calls >>

scoreVars == << scorer_config, rates, sc_pc, utcnow, scored, opportunities >>

monVars == << program, mon_pc, tasks, fetched, scan_opportunities, snapshots,
              scans, funding_rates_json >>

vars == << funding_data, config, bt_pc, df, i, position_open, entry_rate,
           entry_idx, trades, total_pnl, total_funding, total_costs, result,
           events, strategies, positions, orders, active_positions, now, calls,
           scorer_config, rates, sc_pc, utcnow, scored, opportunities,
           program, mon_pc, tasks, fetched, scan_opportunities, snapshots,
           scans, funding_rates_json >>

----------------------------------------------------------------------------
(* Bounds of the model *)

\* longest input series of a backtest run
MaxLen == 4

\* number of open_position / close_position calls of one run of the executor
MaxCalls == 2

\* last clock second of a run of the executor (the clock starts at second 0)
MaxClock == 1

\* number of leg orders of a run that the venue rejects or fills only in part
MaxFaults == 1

\* longest list of rate records handed to the scorer
MaxRates == 2

\* last clock reading of a run of the scorer (the clock starts at 0)
MaxUtc == 1

\* number of scans of one run of the monitor
MaxScans == 2

\* number of orders placed directly with the simulated venues in one run
MaxOrders == 3

\* most items in the response body of a venue
MaxItems == 2

\* most malformed items (funding field missing or not a number) in the
\* response bodies of one scan
MaxMalformed == 1

----------------------------------------------------------------------------
(* backtest.py *)

\* BacktestConfig, dataclass defaults (units of 1e-6; position_size in dollars)
BacktestConfig ==
    [ entry_threshold |-> -1500,
      exit_threshold  |-> -500,
      entry_cost      |-> 1000,
      exit_cost       |-> 400,
      slippage        |-> 1000,
      borrow_rate_8h  |-> 274,
      position_size   |-> 1000,
      max_positions   |-> 3 ]

\* A configuration without hysteresis gap: the thresholds are swapped.  The
\* dataclass has no validation, so run_backtest accepts it.
InvertedConfig ==
    [ BacktestConfig EXCEPT !.entry_threshold = -500, !.exit_threshold = -1500 ]

Configs == { BacktestConfig, InvertedConfig }

\* funding rates an input record may carry (both thresholds, values on each
\* side of them, and zero)
RateValues == { -2000, -1800, -1500, -500, -200, 0 }

\* The series fetch_binance_funding_history returns, and the cache holds, is
\* sorted by fundingTime with one record per funding period: record k carries
\* fundingTime k (in periods of 8 hours).
SeriesOf(rs) ==
    [ k \in 1..Len(rs) |-> [ fundingTime |-> k, fundingRate |-> rs[k] ] ]

RateSeqs == UNION { [ 1..n -> RateValues ] : n \in 0..MaxLen }

NoResult == [ pending |-> TRUE ]

\* a quotient num/den the code computes in floating point
Ratio(num, den) == [ num |-> num, den |-> den ]
\* the literal 0 the code returns in place of a quotient
Zero == [ num |-> 0, den |-> 1 ]

RECURSIVE InsertByTime(_, _)
InsertByTime(s, r) ==
    IF s = << >> THEN << r >>
    ELSE IF r.fundingTime < s[Len(s)].fundingTime
         THEN Append(InsertByTime(SubSeq(s, 1, Len(s) - 1), r), s[Len(s)])
         ELSE Append(s, r)

\* df.sort_values("timestamp").reset_index(drop=True)
RECURSIVE sort_values(_)
sort_values(s) ==
    IF s = << >> THEN << >>
    ELSE InsertByTime(sort_values(SubSeq(s, 1, Len(s) - 1)), s[Len(s)])

\* df.iloc[j]["fundingRate"], j 0-based
RateAt(d, j) == d[j + 1].fundingRate
\* df.iloc[j]["timestamp"]
TimeAt(d, j) == d[j + 1].fundingTime

RECURSIVE SumSeq(_)
SumSeq(s) == IF s = << >> THEN 0 ELSE s[1] + SumSeq(Tail(s))

\* "if rate < config.entry_threshold"
EntrySignalLE(rate, cfg) == rate <= cfg.entry_threshold
EntrySignal(rate, cfg) == rate < cfg.entry_threshold

\* "if rate > config.exit_threshold"
ExitSignal(rate, cfg) == rate > cfg.exit_threshold

\* "periods = i - entry_idx"
PeriodsFromNextRow(idx, eidx) == idx - (eidx + 1)
Periods(idx, eidx) == idx - eidx

\* trade_funding: sum over j in range(entry_idx, i+1)
TradeFunding(d, eidx, idx, cfg) ==
    SumSeq([ k \in 1..(idx - eidx + 1) |->
               (0 - RateAt(d, eidx + k - 1)) * cfg.position_size ])

\* trade_costs with a borrow charge for the period of the entry too
TradeCostsFromEntry(periods, cfg) ==
    (cfg.entry_cost + cfg.exit_cost + cfg.slippage) * cfg.position_size
    + cfg.borrow_rate_8h * cfg.position_size * (periods + 1)
\* trade_costs
TradeCosts(periods, cfg) ==
    (cfg.entry_cost + cfg.exit_cost + cfg.slippage) * cfg.position_size
    + cfg.borrow_rate_8h * cfg.position_size * periods

\* the dict appended to trades
TradeRecord(d, eidx, idx, erate, cfg) ==
    LET periods == Periods(idx, eidx)
        trade_funding == TradeFunding(d, eidx, idx, cfg)
        trade_costs == TradeCosts(periods, cfg)
        trade_pnl == trade_funding - trade_costs
    IN  [ entry_time        |-> TimeAt(d, eidx),
          exit_time         |-> TimeAt(d, idx),
          periods           |-> periods,
          avg_funding       |-> erate,
          funding_collected |-> trade_funding,
          costs             |-> trade_costs,
          pnl               |-> trade_pnl,
          pnl_pct           |-> Ratio(trade_pnl * 100, cfg.position_size) ]

\* trades[-n:]
LastN(s, n) == IF Len(s) <= n THEN s ELSE SubSeq(s, Len(s) - n + 1, Len(s))

\* "(df.timestamp.iloc[-1] - df.timestamp.iloc[0]).days or 1", one period = 8 h
PeriodDays(d) ==
    LET whole == ((d[Len(d)].fundingTime - d[1].fundingTime) * 8) \div 24
    IN  IF whole = 0 THEN 1 ELSE whole

\* "x / len(trades) if trades else 0"
UnguardedRatio(num, n) == Ratio(num, n)
SafeRatio(num, n) == IF n > 0 THEN Ratio(num, n) ELSE Zero

\* the metrics dict run_backtest returns (annualized_return, a float scaling
\* of total_pnl by 365/days, is left out)
Metrics(d, cfg, trs, tpnl, tfunding, tcosts) ==
    LET n == Len(trs)
        wins == Cardinality({ k \in 1..n : trs[k].pnl > 0 })
        held == SumSeq([ k \in 1..n |-> trs[k].periods ])
    IN  [ period_days      |-> PeriodDays(d),
          data_points      |-> Len(d),
          total_trades     |-> n,
          total_funding    |-> tfunding,
          total_costs      |-> tcosts,
          total_pnl        |-> tpnl,
          pnl_per_trade    |-> SafeRatio(tpnl, n),
          win_rate         |-> SafeRatio(wins * 100, n),
          avg_hold_periods |-> SafeRatio(held, n),
          trades           |-> LastN(trs, 10) ]

\* the backtest before run_backtest is entered, its input left open
BTEntry ==
    /\ bt_pc = "start"
    /\ df = << >>
    /\ i = 0
    /\ position_open = FALSE
    /\ entry_rate = 0
    /\ entry_idx = 0
    /\ trades = << >>
    /\ total_pnl = 0
    /\ total_funding = 0
    /\ total_costs = 0
    /\ result = NoResult
    /\ events = << >>
    /\ strategies = NoResult

\* run_backtest, entry: the empty-input return
BTNoData ==
    /\ bt_pc = "start"
    /\ funding_data = << >>
    /\ bt_pc' = "done"
    /\ result' = [ error |-> "No data" ]
    /\ UNCHANGED << strategies, funding_data, config, df, i, position_open, entry_rate,
                    entry_idx, trades, total_pnl, total_funding, total_costs,
                    events >>
    /\ UNCHANGED << execVars, scoreVars, monVars >>

\* run_backtest, entry: build and sort the DataFrame, reset the simulation state
BTStart ==
    /\ bt_pc = "start"
    /\ funding_data # << >>
    /\ df' = sort_values(funding_data)
    /\ bt_pc' = "loop"
    /\ i' = 0
    /\ position_open' = FALSE
    /\ entry_rate' = 0
    /\ entry_idx' = 0
    /\ trades' = << >>
    /\ total_pnl' = 0
    /\ total_funding' = 0
    /\ total_costs' = 0
    /\ UNCHANGED << strategies, funding_data, config, result, events >>
    /\ UNCHANGED << execVars, scoreVars, monVars >>

\* entry charged with the cost of the whole round trip
RoundTripCharge(cfg) ==
    (cfg.entry_cost + cfg.exit_cost + cfg.slippage) * cfg.position_size
\* "(config.entry_cost + config.slippage) * config.position_size"
EntryCharge(cfg) == (cfg.entry_cost + cfg.slippage) * cfg.position_size

\* one iteration of "for i, row in df.iterrows()" with the position closed
BTStepIdle ==
    /\ bt_pc = "loop"
    /\ i < Len(df)
    /\ ~position_open
    /\ LET rate == RateAt(df, i)
       IN  IF EntrySignal(rate, config)
           THEN /\ position_open' = TRUE
                /\ entry_rate' = rate
                /\ entry_idx' = i
                /\ total_costs' = total_costs + EntryCharge(config)
                /\ events' = Append(events, << "open", i >>)
           ELSE UNCHANGED << position_open, entry_rate, entry_idx, total_costs,
                             events >>
    /\ i' = i + 1
    /\ UNCHANGED << strategies, funding_data, config, bt_pc, df, trades, total_pnl,
                    total_funding, result >>
    /\ UNCHANGED << execVars, scoreVars, monVars >>

\* one iteration of the loop with the position open
BTStepOpen ==
    /\ bt_pc = "loop"
    /\ i < Len(df)
    /\ position_open
    /\ LET rate == RateAt(df, i)
           funding_received == (0 - rate) * config.position_size
           borrow == config.borrow_rate_8h * config.position_size
       IN  /\ total_funding' = total_funding + funding_received
           /\ IF ExitSignal(rate, config)
              THEN LET t == TradeRecord(df, entry_idx, i, entry_rate, config)
                   IN  /\ position_open' = FALSE
                       /\ total_costs' = total_costs + borrow
                              + config.exit_cost * config.position_size
                       /\ trades' = Append(trades, t)
                       /\ total_pnl' = total_pnl + t.pnl
                       /\ events' = Append(events, << "close", i >>)
              ELSE /\ total_costs' = total_costs + borrow
                   /\ UNCHANGED << position_open, trades, total_pnl, events >>
    /\ i' = i + 1
    /\ UNCHANGED << strategies, funding_data, config, bt_pc, df, entry_rate, entry_idx,
                    result >>
    /\ UNCHANGED << execVars, scoreVars, monVars >>

\* run_backtest, after the loop: the returned metrics
BTFinish ==
    /\ bt_pc = "loop"
    /\ i = Len(df)
    /\ bt_pc' = "done"
    /\ result' = Metrics(df, config, trades, total_pnl, total_funding, total_costs)
    /\ UNCHANGED << strategies, funding_data, config, df, i, position_open, entry_rate,
                    entry_idx, trades, total_pnl, total_funding, total_costs,
                    events >>
    /\ UNCHANGED << execVars, scoreVars, monVars >>

run_backtest == BTNoData \/ BTStart \/ BTStepIdle \/ BTStepOpen \/ BTFinish

----------------------------------------------------------------------------
(* deep_analysis.py *)

\* the three (strategy_name, entry_thresh, exit_thresh) the function loops over
Strategies ==
    << [ name |-> "conservative", entry_thresh |-> -1500, exit_thresh |-> -300 ],
       [ name |-> "moderate",     entry_thresh |-> -1000, exit_thresh |-> -200 ],
       [ name |-> "aggressive",   entry_thresh |-> -500,  exit_thresh |-> 0 ] >>

StrategyNames == { Strategies[k].name : k \in 1..Len(Strategies) }

\* the costs per $1000 position, in millionths of a dollar
StrategyCosts ==
    [ entry_cost |-> 1000000, exit_cost |-> 400000, slippage |-> 500000,
      borrow_8h  |-> 274000 ]

\* "rates = [(float(d["fundingRate"]), d["fundingTime"]) for d in data]":
\* the records in the order of data
RatePairs(data) ==
    [ k \in 1..Len(data) |-> << data[k].fundingRate, data[k].fundingTime >> ]

\* "if rate < entry_thresh"
StrategyEntryLE(rate, entry_thresh) == rate <= entry_thresh
StrategyEntry(rate, entry_thresh) == rate < entry_thresh

\* "if rate > exit_thresh"
StrategyExit(rate, exit_thresh) == rate > exit_thresh

\* the dict appended to trades when the position is closed at row idx
StrategyTrade(rs, eidx, idx) ==
    LET periods == idx - eidx
        funding == SumSeq([ j \in 1..(idx - eidx + 1) |->
                              (0 - rs[eidx + j][1]) * 1000 ])
        costs == StrategyCosts.entry_cost + StrategyCosts.exit_cost
                     + StrategyCosts.slippage
                     + StrategyCosts.borrow_8h * periods
    IN  [ periods |-> periods,
          hours   |-> periods * 8,
          funding |-> funding,
          costs   |-> costs,
          pnl     |-> funding - costs ]

\* the locals of one strategy before "for i, (rate, ts) in enumerate(rates)";
\* events is the history of the rows where the position was opened and closed
StrategyEntryState ==
    [ in_position |-> FALSE, entry_idx |-> 0, trades |-> << >>,
      events |-> << >> ]

\* the loop of one strategy from row k (0-based) on
RECURSIVE StrategyLoop(_, _, _, _)
StrategyLoop(rs, s, k, st) ==
    IF k >= Len(rs) THEN st
    ELSE LET rate == rs[k + 1][1]
         IN  StrategyLoop(rs, s, k + 1,
               IF ~st.in_position
               THEN IF StrategyEntry(rate, s.entry_thresh)
                    THEN [ st EXCEPT !.in_position = TRUE,
                                     !.entry_idx = k,
                                     !.events = Append(@, << "open", k >>) ]
                    ELSE st
               ELSE IF StrategyExit(rate, s.exit_thresh)
                    THEN [ st EXCEPT !.in_position = FALSE,
                                     !.trades = Append(@,
                                         StrategyTrade(rs, st.entry_idx, k)),
                                     !.events = Append(@, << "close", k >>) ]
                    ELSE st)

\* results[strategy_name]; trades and events are the locals of the strategy,
\* kept as history
StrategyResult(rs, s) ==
    LET st == StrategyLoop(rs, s, 0, StrategyEntryState)
        n == Len(st.trades)
    IN  [ entry_threshold |-> s.entry_thresh,
          exit_threshold  |-> s.exit_thresh,
          total_trades    |-> n,
          total_pnl       |-> SumSeq([ k \in 1..n |-> st.trades[k].pnl ]),
          total_costs     |-> SumSeq([ k \in 1..n |-> st.trades[k].costs ]),
          total_funding   |-> SumSeq([ k \in 1..n |-> st.trades[k].funding ]),
          hold_hours      |-> SumSeq([ k \in 1..n |-> st.trades[k].hours ]),
          trades          |-> st.trades,
          events          |-> st.events ]

\* simulate_realistic_strategy(data): "days = len(rates) / 3" is 0 on an empty
\* list and "len(trades) / (days / 30)" then raises ZeroDivisionError
simulate_realistic_strategy ==
    /\ strategies = NoResult
    /\ IF funding_data = << >>
       THEN strategies' = [ error |-> "ZeroDivisionError" ]
       ELSE strategies' =
              [ name \in StrategyNames |->
                  LET s == CHOOSE x \in { Strategies[k] : k \in 1..Len(Strategies) } :
                               x.name = name
                  IN  StrategyResult(RatePairs(funding_data), s) ]
    /\ UNCHANGED << funding_data, config, bt_pc, df, i, position_open,
                    entry_rate, entry_idx, trades, total_pnl, total_funding,
                    total_costs, result, events >>
    /\ UNCHANGED << execVars, scoreVars, monVars >>

----------------------------------------------------------------------------
(* execution/executor.py *)

\* the clients the executor is constructed with (as in test_executor)
Clients == { "binance", "bybit" }

\* the exchange names a caller may pass to open_position
ExchangeNames == Clients \cup { "okx" }

\* the (long_exchange, short_exchange) a caller opens positions on, as in
\* test_executor
VenuePairs == { << "binance", "bybit" >> }

Symbols == { "SOLUSDT" }

\* size_usd values a caller may pass
SizesUsd == { 200 }

\* "size = size_usd / 100", the assumed dollars per unit
UnitPrice == 100

\* "order.fill_price = order.price or 100"; market orders carry no price
FillPrice == 100

\* dict helpers
PutKey(f, k, v) == [ x \in (DOMAIN f) \cup { k } |-> IF x = k THEN v ELSE f[x] ]
DelKey(f, k) == [ x \in (DOMAIN f) \ { k } |-> f[x] ]
EmptyDict == [ x \in { } |-> 0 ]

\* class Position (entry_time, pnl and funding_collected are written once and
\* never read; they are left out)
Position(exchange, symbol, side, size, entry_price) ==
    [ exchange |-> exchange, symbol |-> symbol, side |-> side, size |-> size,
      entry_price |-> entry_price ]

\* class Order, with the state of the task that places it:
\* "none" (not created), "issued", "filled", "failed" (place_order raised)
Order(exchange, symbol, side, size) ==
    [ exchange |-> exchange, symbol |-> symbol, side |-> side, size |-> size,
      task |-> "issued", status |-> "pending", fill_price |-> 0,
      filled_size |-> 0 ]

NoOrder ==
    [ exchange |-> "", symbol |-> "", side |-> "", size |-> 0,
      task |-> "none", status |-> "pending", fill_price |-> 0,
      filled_size |-> 0 ]

NoPosition == Position("", "", "", 0, 0)

\* class ArbPosition (base_asset, entry_time and target_funding_rate, copied
\* from the arguments and never read, are left out).  The id "arb_<second>" is
\* kept as the second.
ArbPosition(id, long_leg, short_leg) ==
    [ id |-> id, long_leg |-> long_leg, short_leg |-> short_leg,
      status |-> "open" ]

NoArb == [ id |-> -1, long_leg |-> NoPosition, short_leg |-> NoPosition,
           status |-> "none" ]

\* a coroutine slot not yet used.  long / short are the first and second
\* awaitable passed to asyncio.gather; first is the leg that resolved first.
NoCall ==
    [ op |-> "none", pc |-> "idle", pos_id |-> -1, pos |-> NoArb,
      long |-> NoOrder, short |-> NoOrder, first |-> "none", fault |-> "none" ]

CallIds == 1..MaxCalls
Legs == { "long", "short" }
Other(leg) == IF leg = "long" THEN "short" ELSE "long"

\* SimulatedClient.place_order, the position update: ps is self.positions
place_order(ps, client, order, filled_size, fill_price) ==
    IF order.symbol \in DOMAIN ps
    THEN LET pos == ps[order.symbol]
         IN  IF pos.side = order.side
             THEN LET new_size == pos.size + filled_size
                  IN  PutKey(ps, order.symbol,
                        [ pos EXCEPT
                            !.entry_price =
                                (pos.entry_price * pos.size + fill_price * filled_size)
                                    \div new_size,
                            !.size = new_size ])
             ELSE IF filled_size >= pos.size
                  THEN DelKey(ps, order.symbol)
                  ELSE PutKey(ps, order.symbol,
                              [ pos EXCEPT !.size = pos.size - filled_size ])
    ELSE PutKey(ps, order.symbol,
                Position(client, order.symbol, order.side, filled_size,
                         fill_price))

\* the Order place_order returns
Filled(order, filled_size) ==
    [ order EXCEPT !.task = "filled", !.status = "filled",
                   !.fill_price = FillPrice, !.filled_size = filled_size ]

\* ArbExecutor.__init__ over fresh SimulatedClients
ExecEntry ==
    /\ positions = [ v \in Clients |-> EmptyDict ]
    /\ orders = [ v \in Clients |-> EmptyBag ]
    /\ active_positions = EmptyDict
    /\ now = 0
    /\ calls = [ c \in CallIds |-> NoCall ]

\* the next coroutine started takes the first unused slot
Fresh(c) ==
    /\ calls[c].op = "none"
    /\ \A d \in CallIds : d < c => calls[d].op # "none"

\* the values int(time.time()) may return: the clock never runs backwards
ClockReads == now..MaxClock

\* open_position looking its clients up one by one as it places the orders:
\* the leg of the exchange that has a client is placed and filled before the
\* lookup of the other raises
OpenLookupAfterOrder(c, long_exchange, short_exchange) ==
    LET known == IF long_exchange \in Clients THEN long_exchange
                 ELSE short_exchange
        side == IF long_exchange \in Clients THEN "long" ELSE "short"
        done == Filled(Order(known, "SOLUSDT", side, 2), 2)
    IN  /\ calls[c].op = "none"
        /\ \A d \in CallIds : d < c => calls[d].op # "none"
        /\ long_exchange \notin Clients \/ short_exchange \notin Clients
        /\ calls' = [ calls EXCEPT ![c] =
                        [ calls[c] EXCEPT !.op = "open", !.pc = "raised",
                                          !.fault = "KeyError" ] ]
        /\ IF known \in Clients
           THEN /\ positions' = [ positions EXCEPT ![known] =
                                    place_order(@, known, done, 2, 100) ]
                /\ orders' = [ orders EXCEPT ![known] = @ (+) SetToBag({ done }) ]
           ELSE UNCHANGED << positions, orders >>
        /\ UNCHANGED << active_positions, now,
                        btVars, scoreVars, monVars >>
\* open_position naming an exchange without client: self.clients[...] raises
OpenUnknownVenue(c, long_exchange, short_exchange) ==
    /\ Fresh(c)
    /\ long_exchange \notin Clients \/ short_exchange \notin Clients
    /\ calls' = [ calls EXCEPT ![c] =
                    [ NoCall EXCEPT !.op = "open", !.pc = "raised",
                                    !.fault = "KeyError" ] ]
    /\ UNCHANGED << positions, orders, active_positions, now,
                    btVars, scoreVars, monVars >>

\* the two awaitables handed to asyncio.gather: both tasks are created by the
\* one gather call, before the coroutine suspends
Gather(call, first_order, second_order) ==
    [ call EXCEPT !.pc = "awaiting", !.long = first_order, !.short = second_order ]

\* open_position up to "await asyncio.gather(...)"
OpenSubmit(c, long_exchange, short_exchange, symbol, size_usd) ==
    /\ Fresh(c)
    /\ long_exchange \in Clients /\ short_exchange \in Clients
    /\ LET size == size_usd \div UnitPrice
           long_order == Order(long_exchange, symbol, "long", size)
           short_order == Order(short_exchange, symbol, "short", size)
       IN  calls' = [ calls EXCEPT ![c] =
                        Gather([ NoCall EXCEPT !.op = "open" ],
                               long_order, short_order) ]
    /\ UNCHANGED << positions, orders, active_positions, now,
                    btVars, scoreVars, monVars >>

\* close_position of an id that is not in the table: ValueError
CloseNotFound(c, pos_id) ==
    /\ Fresh(c)
    /\ pos_id \notin DOMAIN active_positions
    /\ calls' = [ calls EXCEPT ![c] =
                    [ NoCall EXCEPT !.op = "close", !.pc = "raised",
                                    !.pos_id = pos_id, !.fault = "ValueError" ] ]
    /\ UNCHANGED << positions, orders, active_positions, now,
                    btVars, scoreVars, monVars >>

\* close_position up to "await asyncio.gather(...)"
CloseSubmit(c, pos_id) ==
    /\ Fresh(c)
    /\ pos_id \in DOMAIN active_positions
    /\ LET pos == active_positions[pos_id]
           close_long == Order(pos.long_leg.exchange, pos.long_leg.symbol,
                               "short", pos.long_leg.size)
           close_short == Order(pos.short_leg.exchange, pos.short_leg.symbol,
                                "long", pos.short_leg.size)
       IN  calls' = [ calls EXCEPT ![c] =
                        Gather([ NoCall EXCEPT !.op = "close", !.pos_id = pos_id,
                                               !.pos = pos ],
                               close_long, close_short) ]
    /\ UNCHANGED << positions, orders, active_positions, now,
                    btVars, scoreVars, monVars >>

\* a leg's place_order completes: the venue fills filled_size units
FillOf(c, leg, filled_size) ==
    LET order == calls[c][leg]
        done == Filled(order, filled_size)
    IN  /\ order.task = "issued"
        /\ positions' = [ positions EXCEPT ![order.exchange] =
                            place_order(@, order.exchange, order, filled_size,
                                        FillPrice) ]
        /\ orders' = [ orders EXCEPT ![order.exchange] = @ (+) SetToBag({ done }) ]
        /\ calls' = [ calls EXCEPT
                        ![c][leg] = done,
                        ![c].first = IF @ = "none" THEN leg ELSE @ ]
        /\ UNCHANGED << active_positions, now,
                        btVars, scoreVars, monVars >>

\* SimulatedClient.place_order: "order.filled_size = order.size"
FillLeg(c, leg) == FillOf(c, leg, calls[c][leg].size)

\* sizes and sides of the orders a caller places with a client directly
OrderSizes == { 1, 2 }
Sides == { "long", "short" }

\* SimulatedClient.place_order called on client v with a market order: the
\* order is filled in full, the position of its symbol is updated and the
\* order is appended to self.orders
SimPlaceOrder(v, symbol, side, size) ==
    LET done == Filled(Order(v, symbol, side, size), size)
    IN  /\ BagCardinality(orders[v]) < MaxOrders
        /\ \A c \in CallIds : calls[c] = NoCall
        /\ positions' = [ positions EXCEPT ![v] =
                            place_order(@, v, done, done.filled_size,
                                        done.fill_price) ]
        /\ orders' = [ orders EXCEPT ![v] = @ (+) SetToBag({ done }) ]
        /\ UNCHANGED << active_positions, now, calls,
                        btVars, scoreVars, monVars >>

\* the leg orders the venue has rejected or filled only in part so far
Faults ==
    { cl \in CallIds \X Legs :
        LET order == calls[cl[1]][cl[2]]
        IN  \/ order.task = "failed"
            \/ order.task = "filled" /\ order.filled_size < order.size }

\* an ExchangeClient whose venue fills less than the order's size
PartialFillLeg(c, leg, filled_size) ==
    /\ Cardinality(Faults) < MaxFaults
    /\ filled_size < calls[c][leg].size
    /\ FillOf(c, leg, filled_size)

\* an ExchangeClient whose place_order raises (rejection, network fault)
FailLeg(c, leg) ==
    /\ Cardinality(Faults) < MaxFaults
    /\ calls[c][leg].task = "issued"
    /\ calls' = [ calls EXCEPT
                    ![c][leg].task = "failed",
                    ![c].first = IF @ = "none" THEN leg ELSE @ ]
    /\ UNCHANGED << positions, orders, active_positions, now,
                    btVars, scoreVars, monVars >>

\* asyncio.gather without return_exceptions: the first exception of a leg is
\* raised in the awaiting coroutine; the other leg's task is not cancelled
GatherRaise(c) ==
    /\ calls[c].pc = "awaiting"
    /\ \E leg \in Legs : calls[c][leg].task = "failed"
    /\ calls' = [ calls EXCEPT ![c].pc = "raised", ![c].fault = "OrderFault" ]
    /\ UNCHANGED << positions, orders, active_positions, now,
                    btVars, scoreVars, monVars >>

\* asyncio.gather returns its results once every awaitable has finished
AnyLegDone(call) ==
    /\ \E leg \in Legs : call[leg].task = "filled"
    /\ \A leg \in Legs : call[leg].task # "failed"
GatherDone(call) == \A leg \in Legs : call[leg].task = "filled"

\* the ArbPosition open_position builds from the two results
NewArbPosition(call, t) ==
    LET long_result == call.long
        short_result == call.short
    IN  ArbPosition(t,
          Position(long_result.exchange, long_result.symbol, "long",
                   long_result.filled_size, long_result.fill_price),
          Position(short_result.exchange, short_result.symbol, "short",
                   short_result.filled_size, short_result.fill_price))

\* open_position after the gather: pos_id = f"arb_{int(time.time())}",
\* self.active_positions[pos_id] = arb_pos, return arb_pos
OpenReturn(c, t) ==
    /\ calls[c].op = "open"
    /\ calls[c].pc = "awaiting"
    /\ GatherDone(calls[c])
    /\ t \in ClockReads
    /\ now' = t
    /\ LET arb_pos == NewArbPosition(calls[c], t)
       IN  /\ active_positions' = PutKey(active_positions, arb_pos.id, arb_pos)
           /\ calls' = [ calls EXCEPT ![c].pc = "returned",
                                      ![c].pos_id = arb_pos.id,
                                      ![c].pos = arb_pos ]
    /\ UNCHANGED << positions, orders,
                    btVars, scoreVars, monVars >>

\* close_position after the gather: pos.status = "closed",
\* del self.active_positions[pos_id], return the summary
CloseReturn(c) ==
    /\ calls[c].op = "close"
    /\ calls[c].pc = "awaiting"
    /\ GatherDone(calls[c])
    /\ calls[c].pos_id \in DOMAIN active_positions
    /\ active_positions' = DelKey(active_positions, calls[c].pos_id)
    /\ calls' = [ calls EXCEPT ![c].pc = "returned", ![c].pos.status = "closed" ]
    /\ UNCHANGED << positions, orders, now,
                    btVars, scoreVars, monVars >>

\* close_position after the gather when the id is gone: the del raises
CloseDelRaises(c) ==
    /\ calls[c].op = "close"
    /\ calls[c].pc = "awaiting"
    /\ GatherDone(calls[c])
    /\ calls[c].pos_id \notin DOMAIN active_positions
    /\ calls' = [ calls EXCEPT ![c].pc = "raised", ![c].pos.status = "closed",
                               ![c].fault = "KeyError" ]
    /\ UNCHANGED << positions, orders, active_positions, now,
                    btVars, scoreVars, monVars >>

open_position ==
    \E c \in CallIds :
        \/ \E le \in ExchangeNames, se \in ExchangeNames :
               OpenUnknownVenue(c, le, se)
        \/ \E p \in VenuePairs, sym \in Symbols, usd \in SizesUsd :
               OpenSubmit(c, p[1], p[2], sym, usd)
        \/ \E t \in 0..MaxClock : OpenReturn(c, t)

close_position ==
    \E c \in CallIds :
        \/ \E id \in 0..MaxClock : CloseNotFound(c, id)
        \/ \E id \in 0..MaxClock : CloseSubmit(c, id)
        \/ CloseReturn(c)
        \/ CloseDelRaises(c)

ExchangeClient ==
    \E c \in CallIds, leg \in Legs :
        \/ FillLeg(c, leg)
        \/ \E f \in 1..calls[c][leg].size : PartialFillLeg(c, leg, f)
        \/ FailLeg(c, leg)

ArbExecutor ==
    \/ open_position
    \/ close_position
    \/ ExchangeClient
    \/ \E c \in CallIds : GatherRaise(c)

----------------------------------------------------------------------------
(* config.py *)

\* TradingConfig, dataclass defaults: the two fields the scorer reads
\* (min_net_yield_pct in percent, min_funding_rate in units of 1e-6)
TradingConfig ==
    [ min_net_yield_pct |-> 50,
      min_funding_rate  |-> -1500 ]

\* CostModel, dataclass defaults (units of 1e-6)
CostModel ==
    [ binance_maker      |-> 200,
      binance_taker      |-> 400,
      bybit_maker        |-> 200,
      bybit_taker        |-> 550,
      hyperliquid_maker  |-> 200,
      hyperliquid_taker  |-> 500,
      okx_maker          |-> 200,
      okx_taker          |-> 500,
      slippage_estimate  |-> 500,
      default_borrow_apr |-> 300000 ]

\* Config.symbol_whitelist, the default list
symbol_whitelist ==
    { "BTC", "ETH", "SOL", "DOGE", "XRP", "ADA", "AVAX", "LINK",
      "DOT", "MATIC", "UNI", "ATOM", "LTC", "BCH", "APT", "ARB",
      "OP", "INJ", "SUI", "SEI", "TIA", "JUP", "PYTH", "JTO",
      "WIF", "BONK", "PEPE", "SHIB", "FIL", "NEAR", "RENDER" }

\* Config, dataclass defaults (the exchange credentials are not read by the
\* scorer)
Config ==
    [ trading          |-> TradingConfig,
      costs            |-> CostModel,
      symbol_whitelist |-> symbol_whitelist ]

\* the configurations a scorer is constructed with: the defaults, a funding
\* threshold of zero, and a whitelist narrowed to one asset
ScorerConfigs ==
    { Config,
      [ Config EXCEPT !.trading.min_funding_rate = 0 ],
      [ Config EXCEPT !.symbol_whitelist = { "ETH" } ] }

----------------------------------------------------------------------------
(* models/opportunity_scorer.py *)

\* "return None"
None == [ none |-> TRUE ]

\* the fee pair with the taker fee first
TakerFirst(cfg, exchange) ==
    CASE exchange = "binance" ->
           << cfg.costs.binance_taker, cfg.costs.binance_maker >>
      [] exchange = "bybit" ->
           << cfg.costs.bybit_taker, cfg.costs.bybit_maker >>
      [] exchange = "hyperliquid" ->
           << cfg.costs.hyperliquid_taker, cfg.costs.hyperliquid_maker >>
      [] exchange = "okx" ->
           << cfg.costs.okx_taker, cfg.costs.okx_maker >>
      [] OTHER -> << 500, 500 >>
\* OpportunityScorer.get_fees: (maker, taker) of the exchange
get_fees(cfg, exchange) ==
    CASE exchange = "binance" ->
           << cfg.costs.binance_maker, cfg.costs.binance_taker >>
      [] exchange = "bybit" ->
           << cfg.costs.bybit_maker, cfg.costs.bybit_taker >>
      [] exchange = "hyperliquid" ->
           << cfg.costs.hyperliquid_maker, cfg.costs.hyperliquid_taker >>
      [] exchange = "okx" ->
           << cfg.costs.okx_maker, cfg.costs.okx_taker >>
      [] OTHER -> << 500, 500 >>

\* a suffix list without the swap instrument suffixes
SuffixesNoSwap == << "USDT", "USD", "PERP" >>
\* the suffixes of extract_base_asset, in the order tried
suffixes == << "USDT", "USD", "PERP", "-USDT-SWAP", "-USD-SWAP" >>

\* symbol.endswith(suffix)
endswith(symbol, suffix) ==
    /\ Len(symbol) >= Len(suffix)
    /\ SubSeq(symbol, Len(symbol) - Len(suffix) + 1, Len(symbol)) = suffix

\* "sub in symbol"
contains(symbol, sub) ==
    \E n \in 1..(Len(symbol) - Len(sub) + 1) :
        SubSeq(symbol, n, n + Len(sub) - 1) = sub

\* OpportunityScorer.extract_base_asset: the symbol without the first suffix
\* of the list it ends with
extract_base_asset(symbol) ==
    LET hits == { n \in 1..Len(suffixes) : endswith(symbol, suffixes[n]) }
    IN  IF hits = { } THEN symbol
        ELSE LET first == CHOOSE n \in hits : \A m \in hits : n <= m
             IN  SubSeq(symbol, 1, Len(symbol) - Len(suffixes[first]))

\* the whitelist test done against the default list instead of the configured
DefaultWhitelisted(cfg, symbol) ==
    extract_base_asset(symbol) \in symbol_whitelist
\* OpportunityScorer.is_whitelisted
is_whitelisted(cfg, symbol) ==
    extract_base_asset(symbol) \in cfg.symbol_whitelist

\* "if funding_rate > 0"
StrictlyPositive(funding_rate) == funding_rate > 0
\* "if funding_rate >= 0"
NonNegative(funding_rate) == funding_rate >= 0

\* assets scored as liquid
major_assets == { "BTC", "ETH", "SOL", "XRP", "DOGE" }

\* funding periods the entry and exit costs are amortized over
periods == 3

\* the Opportunity calculate_opportunity builds once the filters have passed,
\* given the slippage cost of the two legs.  Units: the cost fields 1e-6, the
\* annualized fields 1e-6 percent, liquidity_score 0.01; the two per-period
\* quotients are kept as ratios (3 * 365 = 1095 periods a year, so
\* net_yield_8h has denominator 1095 * periods and its annualization, times
\* 109500, is the numerator times 100 / periods, exact for periods = 3).
Opportunity(cfg, rate_data, t, slippage_cost) ==
    LET funding_rate == rate_data.rate
        base_asset == extract_base_asset(rate_data.symbol)
        fees == get_fees(cfg, rate_data.exchange)
        maker_fee == fees[1]
        taker_fee == fees[2]
        entry_cost == 2 * taker_fee
        exit_cost == 2 * maker_fee
        funding_received == -funding_rate
        net_num == funding_received * 1095 * periods
                     - cfg.costs.default_borrow_apr * periods
                     - (entry_cost + exit_cost + slippage_cost) * 1095
    IN  [ exchange             |-> rate_data.exchange,
          symbol               |-> rate_data.symbol,
          base_asset           |-> base_asset,
          funding_rate         |-> funding_rate,
          funding_annualized   |-> funding_rate * 3 * 365 * 100,
          entry_cost           |-> entry_cost,
          exit_cost            |-> exit_cost,
          slippage_cost        |-> slippage_cost,
          borrow_cost_8h       |-> Ratio(cfg.costs.default_borrow_apr, 3 * 365),
          net_yield_8h         |-> Ratio(net_num, 1095 * periods),
          net_yield_annualized |-> (net_num * 100) \div periods,
          liquidity_score      |-> IF base_asset \in major_assets THEN 90 ELSE 50,
          timestamp            |-> t ]

\* the scorer with a slippage estimate that grows with the time of the call
CalculateAtClock(cfg, rate_data, t) ==
    IF NonNegative(rate_data.rate) THEN None
    ELSE IF ~is_whitelisted(cfg, rate_data.symbol) THEN None
    ELSE IF rate_data.rate > cfg.trading.min_funding_rate THEN None
    ELSE Opportunity(cfg, rate_data, t, cfg.costs.slippage_estimate * (2 + t))
\* OpportunityScorer.calculate_opportunity, called at time t (utcnow)
calculate_opportunity(cfg, rate_data, t) ==
    IF NonNegative(rate_data.rate) THEN None
    ELSE IF ~is_whitelisted(cfg, rate_data.symbol) THEN None
    ELSE IF rate_data.rate > cfg.trading.min_funding_rate THEN None
    ELSE Opportunity(cfg, rate_data, t, cfg.costs.slippage_estimate * 2)

\* the minimum taken as a bound the net yield has to exceed
QualifiesAbove(cfg, opp) ==
    /\ opp # None
    /\ opp.net_yield_annualized > cfg.trading.min_net_yield_pct * 1000000
\* "opp and opp.net_yield_annualized >= self.trading.min_net_yield_pct"
Qualifies(cfg, opp) ==
    /\ opp # None
    /\ opp.net_yield_annualized >= cfg.trading.min_net_yield_pct * 1000000

\* the list left in the order of its appends
Unsorted(s, key) == s

\* list.sort / sorted with reverse=True on an integer key: a stable sort, so
\* elements of equal key keep the order they had in the input
RECURSIVE InsertDesc(_, _, _)
InsertDesc(s, x, key) ==
    IF s = << >> THEN << x >>
    ELSE IF s[Len(s)][key] < x[key]
         THEN Append(InsertDesc(SubSeq(s, 1, Len(s) - 1), x, key), s[Len(s)])
         ELSE Append(s, x)

RECURSIVE SortDesc(_, _)
SortDesc(s, key) ==
    IF s = << >> THEN << >>
    ELSE InsertDesc(SortDesc(SubSeq(s, 1, Len(s) - 1), key), s[Len(s)], key)

\* the venues of a scan, in the order their calls are gathered
Venues == << "binance", "bybit", "hyperliquid", "okx" >>
VenueNames == { Venues[n] : n \in 1..Len(Venues) }

\* symbols the venues list: USDT pairs, a pair of an asset outside every
\* whitelist, a bare asset name and a swap instrument id
VenueSymbols(v) ==
    CASE v = "binance"     -> { "BTCUSDT", "ETHUSDT" }
      [] v = "bybit"       -> { "XYZUSDT" }
      [] v = "hyperliquid" -> { "ADA" }
      [] v = "okx"         -> { "BTC-USDT-SWAP" }

\* funding rates an observation may carry (units of 1e-6): below, at and
\* above the funding threshold, zero, and positive
FundingRates == { -2000, -1500, -1000, 0, 100 }

\* the records the venue calls build: {"exchange", "symbol", "rate"}
Observations ==
    UNION { { [ exchange |-> v, symbol |-> s, rate |-> r ] :
                s \in VenueSymbols(v), r \in FundingRates } : v \in VenueNames }

\* position of a venue in the gather
VenueIndex(v) == CHOOSE n \in 1..Len(Venues) : Venues[n] = v

\* The list a scan hands to the scorer is the concatenation of the venues'
\* records in the order of the gather, each venue's records in the order of
\* its response: any order within a venue, the venues in sequence.
RateLists ==
    { rl \in UNION { [ 1..n -> Observations ] : n \in 0..MaxRates } :
        \A a, b \in 1..Len(rl) :
            a < b => VenueIndex(rl[a].exchange) <= VenueIndex(rl[b].exchange) }

\* "opportunities = []" of score_all, entered with its list of rates
ScoreStart ==
    /\ sc_pc = "start"
    /\ sc_pc' = "loop"
    /\ opportunities' = << >>
    /\ UNCHANGED << scorer_config, rates, utcnow, scored >>
    /\ UNCHANGED << btVars, execVars, monVars >>

\* score_all, one iteration of "for rate in rates": the call of
\* calculate_opportunity at clock reading t and the append
ScoreNext(t) ==
    /\ sc_pc = "loop"
    /\ Len(scored) < Len(rates)
    /\ LET rate == rates[Len(scored) + 1]
           opp == calculate_opportunity(scorer_config, rate, t)
       IN  /\ scored' = Append(scored, [ rate_data |-> rate, opp |-> opp ])
           /\ opportunities' = IF Qualifies(scorer_config, opp)
                               THEN Append(opportunities, opp)
                               ELSE opportunities
    /\ utcnow' = t
    /\ UNCHANGED << scorer_config, rates, sc_pc >>
    /\ UNCHANGED << btVars, execVars, monVars >>

\* score_all, after the loop: the sort and the return
ScoreSort ==
    /\ sc_pc = "loop"
    /\ Len(scored) = Len(rates)
    /\ opportunities' = SortDesc(opportunities, "net_yield_annualized")
    /\ sc_pc' = "done"
    /\ UNCHANGED << scorer_config, rates, utcnow, scored >>
    /\ UNCHANGED << btVars, execVars, monVars >>

score_all ==
    \/ ScoreStart
    \/ \E t \in utcnow..MaxUtc : ScoreNext(t)
    \/ ScoreSort

\* the scorer before score_all is entered, its input left open
ScorerEntry ==
    /\ sc_pc = "start"
    /\ utcnow = 0
    /\ scored = << >>
    /\ opportunities = << >>

----------------------------------------------------------------------------
(* monitor.py, fetch_funding.py *)

\* alert thresholds and cost assumptions of monitor.py (units of 1e-6;
\* MIN_NET_YIELD_APR in percent)
ALERT_FUNDING_THRESHOLD == -1500
MIN_NET_YIELD_APR == 30
ROUND_TRIP_COST == 2400
BORROW_8H == 274

WHITELIST ==
    { "BTC", "ETH", "SOL", "DOGE", "XRP", "ADA", "AVAX", "LINK",
      "DOT", "MATIC", "UNI", "ATOM", "LTC", "BCH", "APT", "ARB",
      "OP", "INJ", "SUI", "SEI", "TIA", "JUP", "PYTH", "JTO",
      "WIF", "BONK", "PEPE", "SHIB", "FIL", "NEAR", "RENDER" }

\* the suffix list of monitor.extract_base, in the order tried
base_suffixes == << "USDT", "USD", "PERP", "-USDT-SWAP", "-USD-SWAP" >>

\* the loop of monitor.extract_base from the n-th suffix on: the first suffix
\* the symbol ends with is cut off and the loop is left
RECURSIVE strip_suffix(_, _)
strip_suffix(symbol, n) ==
    IF n > Len(base_suffixes) THEN symbol
    ELSE IF endswith(symbol, base_suffixes[n])
         THEN SubSeq(symbol, 1, Len(symbol) - Len(base_suffixes[n]))
         ELSE strip_suffix(symbol, n + 1)

\* monitor.extract_base
extract_base(symbol) == strip_suffix(symbol, 1)

\* monitor.calculate_net_yield, in units of 1e-6 percent: the 8h net
\* -rate - BORROW_8H - ROUND_TRIP_COST / 3, times 3 * 365 * 100
calculate_net_yield(funding_rate) ==
    IF funding_rate >= 0 THEN 0
    ELSE LET funding_received == -funding_rate
         IN  ((funding_received - BORROW_8H) * 3 - ROUND_TRIP_COST) * 365 * 100

\* the record find_opportunities appends for a rate record r
Alert(r) ==
    [ exchange      |-> r.exchange,
      symbol        |-> r.symbol,
      rate          |-> r.rate,
      base          |-> extract_base(r.symbol),
      annualized    |-> r.rate * 3 * 365 * 100,
      net_yield_apr |-> calculate_net_yield(r.rate) ]

\* the filters of find_opportunities
Actionable(r) ==
    /\ extract_base(r.symbol) \in WHITELIST
    /\ ~(r.rate >= ALERT_FUNDING_THRESHOLD)
    /\ calculate_net_yield(r.rate) >= MIN_NET_YIELD_APR * 1000000

\* monitor.find_opportunities
find_opportunities(rs) ==
    LET kept == SelectSeq(rs, Actionable)
        opps == [ k \in 1..Len(kept) |-> Alert(kept[k]) ]
    IN  SortDesc(opps, "net_yield_apr")

\* the record save_snapshot appends to the day's file (its time stamp is
\* not kept)
Snapshot(rs, opps) ==
    [ rates_count |-> Len(rs),
      opp_count   |-> Len(opps),
      top_opps    |-> SubSeq(opps, 1, IF Len(opps) < 5 THEN Len(opps) ELSE 5) ]

\* a venue call of the gather: a task not yet created, one awaiting its
\* response, and its outcomes; payload is the body of the response the
\* outcome was built from, where the run gives one
NoTask ==
    [ state |-> "none", result |-> << >>, error |-> "", payload |-> << >> ]
Pending ==
    [ state |-> "pending", result |-> << >>, error |-> "", payload |-> << >> ]
Returned(recs) ==
    [ state |-> "done", result |-> recs, error |-> "", payload |-> << >> ]
Raised(error) ==
    [ state |-> "failed", result |-> << >>, error |-> error, payload |-> << >> ]
Cancelled ==
    [ state |-> "cancelled", result |-> << >>, error |-> "",
      payload |-> << >> ]

\* the record lists a venue call returns in a scan: an empty list, or the
\* record of one listed symbol at a rate that alerts
VenueResponses(v) ==
    { << >> } \cup
    { << [ exchange |-> v, symbol |-> s, rate |-> -2000 ] >> :
        s \in VenueSymbols(v) }

\* The funding field of an item of a response body: a number (the venues
\* send it as a decimal string; value in units of 1e-6), a key that is
\* missing, or a value float() cannot convert.
Number(value) == [ kind |-> "number", value |-> value ]
Missing == [ kind |-> "missing", value |-> 0 ]
NonNumeric == [ kind |-> "text", value |-> 0 ]

\* the outcomes of building one element of the list a venue call returns
Built(rec) == [ outcome |-> "record", record |-> rec, error |-> "" ]
Skipped == [ outcome |-> "skipped", record |-> << >>, error |-> "" ]
Raises(error) == [ outcome |-> "raised", record |-> << >>, error |-> error ]

\* {"exchange": v, "symbol": ..., "rate": float(x)}: float raises ValueError
\* on a string that is no number
FloatRecord(v, symbol, x) ==
    IF x.kind = "number"
    THEN Built([ exchange |-> v, symbol |-> symbol, rate |-> x.value ])
    ELSE Raises("ValueError")

\* what the venue call of v does with item d of the response:
\*   binance      float(d["lastFundingRate"]) if "USDT" in d["symbol"]
\*   bybit        float(d.get("fundingRate", 0)) if d.get("fundingRate")
\*   hyperliquid  float(ctxs[i].get("funding", 0))
\*   okx          float(d["fundingRate"])
BuildRecord(v, d) ==
    CASE v = "binance" ->
           IF ~contains(d.symbol, "USDT") THEN Skipped
           ELSE IF d.funding = Missing THEN Raises("KeyError")
           ELSE FloatRecord(v, d.symbol, d.funding)
      [] v = "bybit" ->
           IF d.funding = Missing THEN Skipped
           ELSE FloatRecord(v, d.symbol, d.funding)
      [] v = "hyperliquid" ->
           IF d.funding = Missing THEN FloatRecord(v, d.symbol, Number(0))
           ELSE FloatRecord(v, d.symbol, d.funding)
      [] v = "okx" ->
           IF d.funding = Missing THEN Raises("KeyError")
           ELSE FloatRecord(v, d.symbol, d.funding)

\* the list comprehension (the loop) of a venue call over the items of the
\* response, recs being the records built so far: the first item that raises
\* ends the call, and the records built before it are lost with it
RECURSIVE BuildList(_, _, _)
BuildList(v, items, recs) ==
    IF items = << >> THEN Returned(recs)
    ELSE LET b == BuildRecord(v, items[1])
         IN  CASE b.outcome = "raised" -> Raised(b.error)
               [] b.outcome = "skipped" -> BuildList(v, Tail(items), recs)
               [] OTHER -> BuildList(v, Tail(items), Append(recs, b.record))

\* fetch_binance, fetch_bybit, fetch_hyperliquid, fetch_okx on a response
\* body: the outcome of the call
fetch_venue(v, payload) ==
    [ BuildList(v, payload, << >>) EXCEPT !.payload = payload ]

\* the items a venue may send: a listed symbol with its funding field
VenueItems(v) ==
    [ symbol : VenueSymbols(v), funding : { Number(-2000), Missing, NonNumeric } ]

Malformed(d) == d.funding.kind # "number"

\* number of malformed items in a response body
RECURSIVE MalformedIn(_)
MalformedIn(payload) ==
    IF payload = << >> THEN 0
    ELSE (IF Malformed(payload[1]) THEN 1 ELSE 0) + MalformedIn(Tail(payload))

\* the response bodies of a venue: up to MaxItems items
VenuePayloads(v) ==
    UNION { [ 1..n -> VenueItems(v) ] : n \in 0..MaxItems }

\* the failures of a venue call other than its timeout
VenueErrors == { "ClientError" }

\* venues whose call has raised, in the order of the gather
FailedVenues(ts) == { n \in 1..Len(Venues) : ts[Venues[n]].state = "failed" }

\* the gather is over as soon as one venue call has raised
FirstFailureOrAllResolved(ts) ==
    \/ FailedVenues(ts) # { }
    \/ \A v \in VenueNames : ts[v].state \in { "done", "failed" }
\* asyncio.gather(*tasks, return_exceptions=True) is over: every venue call
\* has returned or raised
AllResolved(ts) ==
    \A v \in VenueNames : ts[v].state \in { "done", "failed" }

\* what "await asyncio.gather(...)" gives its awaiter: with
\* return_exceptions the list of the results, an exception standing in the
\* list for a call that raised; without, the first exception is raised
gather(ts, return_exceptions) ==
    IF ~return_exceptions /\ FailedVenues(ts) # { }
    THEN [ raised  |-> TRUE,
           error   |-> LET n == CHOOSE n \in FailedVenues(ts) :
                                  \A m \in FailedVenues(ts) : n <= m
                       IN  ts[Venues[n]].error,
           results |-> << >> ]
    ELSE [ raised  |-> FALSE,
           error   |-> "",
           results |-> [ n \in 1..Len(Venues) |-> ts[Venues[n]] ] ]

\* the concatenation of a list of lists
RECURSIVE Concat(_)
Concat(lists) ==
    IF lists = << >> THEN << >> ELSE lists[1] \o Concat(Tail(lists))

\* "isinstance(r, list)"
IsList(r) == r.state = "done"
\* "isinstance(r, Exception)"
IsException(r) == r.state = "failed"
\* the else branch of "if isinstance(r, Exception)"
NotException(r) == ~IsException(r)

\* the lists of the results joined from the last result to the first
ExtendReversed(results) ==
    Concat([ n \in 1..Len(results) |->
               LET r == results[Len(results) + 1 - n]
               IN  IF IsList(r) THEN r.result ELSE << >> ])

\* "if isinstance(r, list): all_rates.extend(r)" over the results
ExtendLists(results) ==
    Concat([ n \in 1..Len(results) |->
               IF IsList(results[n]) THEN results[n].result ELSE << >> ])

\* "if isinstance(r, Exception): ... else: all_rates.extend(r)" over the
\* results
ExtendNonExceptions(results) ==
    Concat([ n \in 1..Len(results) |->
               IF NotException(results[n]) THEN results[n].result ELSE << >> ])

\* what the awaiter of the aggregate fetch gets: the list of rates, or the
\* exception that reaches it
Rates(rs) == [ raised |-> FALSE, error |-> "", rates |-> rs ]
Fault(error) == [ raised |-> TRUE, error |-> error, rates |-> << >> ]
NoRates == Rates(<< >>)

\* the aggregate fetch with a gather that lets a venue's exception through
FetchPropagating(ts) ==
    LET g == gather(ts, FALSE)
    IN  IF g.raised THEN Fault(g.error) ELSE Rates(ExtendLists(g.results))
\* monitor.fetch_all_funding, from the gather on
fetch_all_funding(ts) ==
    LET g == gather(ts, TRUE)
    IN  IF g.raised THEN Fault(g.error) ELSE Rates(ExtendLists(g.results))

\* fetch_funding.main, from the gather to the end of the collecting loop
\* (the "next" field of its records is not kept)
main_all_rates(ts) ==
    LET g == gather(ts, TRUE)
    IN  IF g.raised THEN Fault(g.error)
        ELSE Rates(ExtendNonExceptions(g.results))

\* r["annualized"] = r["rate"] * 3 * 365 * 100, for every rate of main
Annualized(rs) ==
    [ k \in 1..Len(rs) |->
        [ exchange   |-> rs[k].exchange,
          symbol     |-> rs[k].symbol,
          rate       |-> rs[k].rate,
          annualized |-> rs[k].rate * 3 * 365 * 100 ] ]

\* the programs that fetch from the four venues
Programs == { "monitor", "fetch_funding" }

\* the scan is entered: monitor_loop calls run_scan, at its start or when its
\* sleep is over (or main of fetch_funding.py starts); the session is opened
\* and the four venue calls are gathered
FetchStart ==
    /\ scans < MaxScans
    /\ \/ mon_pc = "start"
       \/ program = "monitor" /\ mon_pc = "sleeping"
    /\ tasks' = [ v \in VenueNames |-> Pending ]
    /\ mon_pc' = "fetching"
    /\ scans' = scans + 1
    /\ UNCHANGED << program, fetched, scan_opportunities, snapshots,
                    funding_rates_json >>
    /\ UNCHANGED << btVars, execVars, scoreVars >>

\* the venue answers and its call returns the records built from the answer
VenueReturn(v, recs) ==
    /\ mon_pc = "fetching"
    /\ tasks[v].state = "pending"
    /\ tasks' = [ tasks EXCEPT ![v] = Returned(recs) ]
    /\ UNCHANGED << program, mon_pc, fetched, scan_opportunities, snapshots,
                    scans, funding_rates_json >>
    /\ UNCHANGED << btVars, execVars, scoreVars >>

\* the request or the parsing of the answer raises
VenueFail(v, error) ==
    /\ mon_pc = "fetching"
    /\ tasks[v].state = "pending"
    /\ tasks' = [ tasks EXCEPT ![v] = Raised(error) ]
    /\ UNCHANGED << program, mon_pc, fetched, scan_opportunities, snapshots,
                    scans, funding_rates_json >>
    /\ UNCHANGED << btVars, execVars, scoreVars >>

\* the venue answers with a response body and its call builds its records
\* from it; a scan sees at most MaxMalformed malformed items
VenueAnswer(v, payload) ==
    /\ mon_pc = "fetching"
    /\ tasks[v].state = "pending"
    /\ MalformedIn(payload)
         + MalformedIn(Concat([ n \in 1..Len(Venues) |->
                                  tasks[Venues[n]].payload ]))
         <= MaxMalformed
    /\ tasks' = [ tasks EXCEPT ![v] = fetch_venue(v, payload) ]
    /\ UNCHANGED << program, mon_pc, fetched, scan_opportunities, snapshots,
                    scans, funding_rates_json >>
    /\ UNCHANGED << btVars, execVars, scoreVars >>

\* "timeout=10" of the venue calls of monitor.py: no answer within the time
VenueTimeout(v) ==
    /\ program = "monitor"
    /\ mon_pc = "fetching"
    /\ tasks[v].state = "pending"
    /\ tasks' = [ tasks EXCEPT ![v] = Raised("TimeoutError") ]
    /\ UNCHANGED << program, mon_pc, fetched, scan_opportunities, snapshots,
                    scans, funding_rates_json >>
    /\ UNCHANGED << btVars, execVars, scoreVars >>

\* the gather is over and the aggregate fetch has collected its results
FetchReturn ==
    /\ mon_pc = "fetching"
    /\ AllResolved(tasks)
    /\ fetched' = IF program = "monitor" THEN fetch_all_funding(tasks)
                  ELSE main_all_rates(tasks)
    /\ mon_pc' = "fetched"
    /\ UNCHANGED << program, tasks, scan_opportunities, snapshots, scans,
                    funding_rates_json >>
    /\ UNCHANGED << btVars, execVars, scoreVars >>

\* run_scan after the fetch: scoring and snapshot, then the loop sleeps; an
\* exception of the fetch is caught, and the scan returns no opportunity
ScanFinish ==
    /\ program = "monitor"
    /\ mon_pc = "fetched"
    /\ IF fetched.raised
       THEN /\ scan_opportunities' = << >>
            /\ UNCHANGED snapshots
       ELSE LET opps == find_opportunities(fetched.rates)
            IN  /\ scan_opportunities' = opps
                /\ snapshots' = Append(snapshots, Snapshot(fetched.rates, opps))
    /\ mon_pc' = "sleeping"
    /\ UNCHANGED << program, tasks, fetched, scans, funding_rates_json >>
    /\ UNCHANGED << btVars, execVars, scoreVars >>

\* the kinds of exception raised inside the try of run_scan after the fetch:
\* by find_opportunities, or by save_snapshot when the day's file cannot be
\* opened or written
ScanFaults == { "scoring", "snapshot" }

\* the exception leaves run_scan and monitor_loop
ScanFaultRaises(kind) ==
    /\ program = "monitor"
    /\ mon_pc = "fetched"
    /\ kind \in ScanFaults
    /\ mon_pc' = "crashed"
    /\ UNCHANGED << program, tasks, fetched, scan_opportunities, snapshots, scans,
                    funding_rates_json >>
    /\ UNCHANGED << btVars, execVars, scoreVars >>

\* run_scan after the fetch, with an exception raised in the scoring or in
\* the write of the snapshot: "except Exception" prints it and returns [];
\* no record is appended, and the loop goes on to its sleep
ScanFault(kind) ==
    /\ program = "monitor"
    /\ mon_pc = "fetched"
    /\ kind \in ScanFaults
    /\ scan_opportunities' = << >>
    /\ mon_pc' = "sleeping"
    /\ UNCHANGED << program, tasks, fetched, snapshots, scans,
                    funding_rates_json >>
    /\ UNCHANGED << btVars, execVars, scoreVars >>

\* main of fetch_funding.py after the collecting loop: the rates are
\* annualized and saved to funding_rates.json
MainFinish ==
    /\ program = "fetch_funding"
    /\ mon_pc = "fetched"
    /\ IF fetched.raised
       THEN /\ mon_pc' = "crashed"
            /\ UNCHANGED funding_rates_json
       ELSE /\ mon_pc' = "done"
            /\ funding_rates_json' = Annualized(fetched.rates)
    /\ UNCHANGED << program, tasks, fetched, scan_opportunities, snapshots,
                    scans >>
    /\ UNCHANGED << btVars, execVars, scoreVars >>

\* The task running monitor_loop is cancelled.  The CancelledError is raised
\* at the await the loop is suspended in, the gather of a scan or the sleep
\* between two scans; it is no Exception, so run_scan does not catch it, and
\* the venue calls still pending are cancelled with the gather.
Cancel ==
    /\ program = "monitor"
    /\ mon_pc \in { "fetching", "sleeping" }
    /\ mon_pc' = "cancelled"
    /\ tasks' = [ v \in VenueNames |->
                    IF tasks[v].state = "pending" THEN Cancelled ELSE tasks[v] ]
    /\ UNCHANGED << program, fetched, scan_opportunities, snapshots, scans,
                    funding_rates_json >>
    /\ UNCHANGED << btVars, execVars, scoreVars >>

monitor ==
    \/ FetchStart
    \/ \E v \in VenueNames : \E recs \in VenueResponses(v) : VenueReturn(v, recs)
    \/ \E v \in VenueNames : \E error \in VenueErrors : VenueFail(v, error)
    \/ \E v \in VenueNames : VenueTimeout(v)
    \/ FetchReturn
    \/ ScanFinish
    \/ MainFinish
    \/ Cancel

\* the monitor before its first scan, the program left open
MonitorEntry ==
    /\ mon_pc = "start"
    /\ tasks = [ v \in VenueNames |-> NoTask ]
    /\ fetched = NoRates
    /\ scan_opportunities = << >>
    /\ snapshots = << >>
    /\ scans = 0
    /\ funding_rates_json = << >>

----------------------------------------------------------------------------
(* Specifications *)

\* a scorer constructed from load_config() and not yet called
ScorerIdle ==
    /\ scorer_config = Config
    /\ rates = << >>
    /\ ScorerEntry

\* the monitor not yet started
MonitorIdle ==
    /\ program = "monitor"
    /\ MonitorEntry

\* one run of run_backtest on a series and a configuration
InitBT ==
    /\ funding_data \in { SeriesOf(rs) : rs \in RateSeqs }
    /\ config \in Configs
    /\ BTEntry
    /\ ExecEntry
    /\ ScorerIdle
    /\ MonitorIdle

NextBT == run_backtest

SpecBT == InitBT /\ [][NextBT]_vars

\* run_backtest configured with the thresholds of one of the strategies
StrategyConfig(s) ==
    [ BacktestConfig EXCEPT !.entry_threshold = s.entry_thresh,
                            !.exit_threshold = s.exit_thresh ]

StrategyConfigs == { StrategyConfig(Strategies[k]) : k \in 1..Len(Strategies) }

\* funding rates on each side of, and on, the thresholds of the strategies
StrategyRates == { -2000, -1500, -1000, -300, 0, 100 }

StrategyRateSeqs == UNION { [ 1..n -> StrategyRates ] : n \in 0..MaxLen }

\* both simulators given the same series
InitStrategies ==
    /\ funding_data \in { SeriesOf(rs) : rs \in StrategyRateSeqs }
    /\ config \in StrategyConfigs
    /\ BTEntry
    /\ ExecEntry
    /\ ScorerIdle
    /\ MonitorIdle

NextStrategies == run_backtest \/ simulate_realistic_strategy

SpecStrategies == InitStrategies /\ [][NextStrategies]_vars

\* a freshly constructed ArbExecutor over fresh SimulatedClients
InitFresh ==
    /\ funding_data = << >>
    /\ config = BacktestConfig
    /\ BTEntry
    /\ ExecEntry
    /\ ScorerIdle
    /\ MonitorIdle

\* the executor of test_executor after its open_position has returned: the
\* position is held on both venues and registered under the second it was
\* opened in.  calls holds the coroutines started from the initial state on.
ExecOpened ==
    LET long_order == Filled(Order("binance", "SOLUSDT", "long", 2), 2)
        short_order == Filled(Order("bybit", "SOLUSDT", "short", 2), 2)
        opened == [ NoCall EXCEPT !.long = long_order, !.short = short_order ]
    IN  /\ positions =
             [ v \in Clients |->
                 place_order(EmptyDict, v,
                             IF v = "binance" THEN long_order ELSE short_order,
                             2, FillPrice) ]
        /\ orders =
             [ v \in Clients |->
                 SetToBag({ IF v = "binance" THEN long_order ELSE short_order }) ]
        /\ active_positions = PutKey(EmptyDict, 0, NewArbPosition(opened, 0))
        /\ now = 0
        /\ calls = [ c \in CallIds |-> NoCall ]

InitOpened ==
    /\ funding_data = << >>
    /\ config = BacktestConfig
    /\ BTEntry
    /\ ExecOpened
    /\ ScorerIdle
    /\ MonitorIdle

\* one ArbExecutor and the coroutines started on it, from construction or from
\* the state test_executor has reached once its position is open
InitExec == InitFresh \/ InitOpened

NextExec == ArbExecutor

SpecExec == InitExec /\ [][NextExec]_vars

\* The coroutine of call c resumes once its gather is over: the event loop
\* runs every task whose awaited future is done.
Resume(c) ==
    \/ \E t \in 0..MaxClock : OpenReturn(c, t)
    \/ CloseReturn(c)
    \/ CloseDelRaises(c)
    \/ GatherRaise(c)

\* SpecExec with the scheduling of the event loop: a coroutine that can resume
\* does.  Nothing obliges a venue to answer an order, and no step of the
\* coordinator bounds the wait for it.
SpecExecLive == SpecExec /\ \A c \in CallIds : WF_vars(Resume(c))

\* one run of monitor.py (monitor_loop, with its cancellation) or of
\* fetch_funding.py (main)
InitMon ==
    /\ funding_data = << >>
    /\ config = BacktestConfig
    /\ BTEntry
    /\ ExecEntry
    /\ ScorerIdle
    /\ program \in Programs
    /\ MonitorEntry

NextMon == monitor

SpecMon == InitMon /\ [][NextMon]_vars

\* monitor_loop left to run, its scans open to faults of the venues, of the
\* scoring and of the snapshot file
InitLoop ==
    /\ funding_data = << >>
    /\ config = BacktestConfig
    /\ BTEntry
    /\ ExecEntry
    /\ ScorerIdle
    /\ MonitorIdle

\* what a venue call returns in the scans of the loop: no record, or for
\* binance the record of BTCUSDT at a rate that alerts
LoopResponses(v) ==
    { << >> } \cup
    { << [ exchange |-> v, symbol |-> "BTCUSDT", rate |-> -2000 ] >> :
        w \in { v } \cap { "binance" } }

\* a venue call of the scan finishes: it returns its records, or its
\* "timeout=10" ends it
VenueDone(v) ==
    \/ \E recs \in LoopResponses(v) : VenueReturn(v, recs)
    \/ VenueTimeout(v)

\* run_scan from the return of the fetch to its own return
ScanReturn == (\E kind \in ScanFaults : ScanFault(kind)) \/ ScanFinish

NextLoop ==
    \/ FetchStart
    \/ \E v \in VenueNames : VenueDone(v)
    \/ FetchReturn
    \/ ScanReturn

\* The scheduling of the loop: every venue call ends, by its answer, its
\* failure or its "timeout=10"; the event loop resumes the coroutine whose
\* gather is over and runs run_scan to its return; asyncio.sleep returns
\* after the interval.
SpecLoop ==
    /\ InitLoop
    /\ [][NextLoop]_vars
    /\ \A v \in VenueNames : WF_vars(VenueDone(v))
    /\ WF_vars(FetchReturn)
    /\ WF_vars(ScanReturn)
    /\ WF_vars(FetchStart)

\* a scan of the monitor whose fetch has returned the list rl, each venue
\* call having returned the records that carry its name
Fetched(rl) ==
    /\ program = "monitor"
    /\ mon_pc = "fetched"
    /\ tasks = [ v \in VenueNames |->
                   Returned(SelectSeq(rl, LAMBDA r : r.exchange = v)) ]
    /\ fetched = Rates(rl)
    /\ scan_opportunities = << >>
    /\ snapshots = << >>
    /\ scans = 1
    /\ funding_rates_json = << >>

\* the two scorers on one list of rate records: score_all of an
\* OpportunityScorer, and find_opportunities in a scan of the monitor
InitScore ==
    /\ funding_data = << >>
    /\ config = BacktestConfig
    /\ BTEntry
    /\ ExecEntry
    /\ scorer_config \in ScorerConfigs
    /\ rates \in RateLists
    /\ ScorerEntry
    /\ Fetched(rates)

NextScore == score_all \/ ScanFinish

SpecScore == InitScore /\ [][NextScore]_vars

\* SimulatedClients that take orders from their caller directly, without an
\* ArbExecutor call in progress
SimulatedClient ==
    \E v \in Clients, symbol \in Symbols, side \in Sides, size \in OrderSizes :
        SimPlaceOrder(v, symbol, side, size)

NextClient == SimulatedClient

SpecClient == InitFresh /\ [][NextClient]_vars

\* sizes of the position a client may hold on the symbol before the executor
\* is used: smaller and larger than the legs the executor opens
PriorSizes == { 1, 3 }

\* the order that has left client v with a position of that side and size
PriorOrder(v, symbol, side, size) == Filled(Order(v, symbol, side, size), size)

\* what a client holds before the executor is used: nothing, or the position
\* one earlier filled order has left on a symbol
PriorOrders(v) ==
    { EmptyBag } \cup
    { SetToBag({ PriorOrder(v, symbol, side, size) }) :
        symbol \in Symbols, side \in Sides, size \in PriorSizes }

\* self.positions of a client whose self.orders holds the one order of bag
HeldAfter(v, bag) ==
    IF bag = EmptyBag THEN EmptyDict
    ELSE LET order == CHOOSE o \in BagToSet(bag) : TRUE
         IN  place_order(EmptyDict, v, order, order.filled_size,
                         order.fill_price)

\* an ArbExecutor constructed over clients that already hold positions
ExecHeld ==
    /\ orders \in [ Clients -> UNION { PriorOrders(v) : v \in Clients } ]
    /\ \A v \in Clients : orders[v] \in PriorOrders(v)
    /\ positions = [ v \in Clients |-> HeldAfter(v, orders[v]) ]
    /\ active_positions = EmptyDict
    /\ now = 0
    /\ calls = [ c \in CallIds |-> NoCall ]

InitHeld ==
    /\ funding_data = << >>
    /\ config = BacktestConfig
    /\ BTEntry
    /\ ExecHeld
    /\ ScorerIdle
    /\ MonitorIdle

\* test_executor's sequence on such an executor: "pos = await
\* executor.open_position(...)" on any two clients, the same one for both legs
\* included, then "await executor.close_position(pos.id)", every order filled
\* in full
OpenThenClose ==
    \/ \E le \in Clients, se \in Clients, sym \in Symbols, usd \in SizesUsd :
          OpenSubmit(1, le, se, sym, usd)
    \/ \E leg \in Legs : FillLeg(1, leg)
    \/ \E t \in 0..MaxClock : OpenReturn(1, t)
    \/ calls[1].pc = "returned" /\ CloseSubmit(2, calls[1].pos_id)
    \/ \E leg \in Legs : FillLeg(2, leg)
    \/ CloseReturn(2)

NextRoundTrip == OpenThenClose

SpecRoundTrip == InitHeld /\ [][NextRoundTrip]_vars

\* a scan of the monitor that has gathered its four venue calls
Fetching ==
    /\ program = "monitor"
    /\ mon_pc = "fetching"
    /\ tasks = [ v \in VenueNames |-> Pending ]
    /\ fetched = NoRates
    /\ scan_opportunities = << >>
    /\ snapshots = << >>
    /\ scans = 1
    /\ funding_rates_json = << >>

\* one scan from the gather on, the venues answering with response bodies
\* that may hold malformed items
InitParse ==
    /\ funding_data = << >>
    /\ config = BacktestConfig
    /\ BTEntry
    /\ ExecEntry
    /\ ScorerIdle
    /\ Fetching

NextParse ==
    \/ \E v \in VenueNames : \E payload \in VenuePayloads(v) :
          VenueAnswer(v, payload)
    \/ FetchReturn
    \/ ScanFinish

SpecParse == InitParse /\ [][NextParse]_vars

\* configurations and observations at the edges of the filters: the defaults
\* and a configuration whose minimum, 43 % at a funding threshold of -0.14 %,
\* is the net yield of a binance observation at that threshold exactly;
\* rates at and next to the two funding thresholds
EdgeConfigs ==
    { Config,
      [ Config EXCEPT !.trading.min_net_yield_pct = 43,
                      !.trading.min_funding_rate = -1400 ] }
EdgeRates == { -1400, -1500, -1600, -1700 }
EdgeObservations ==
    [ exchange : { "binance" }, symbol : VenueSymbols("binance"),
      rate : EdgeRates ]
    \cup [ exchange : { "okx" }, symbol : VenueSymbols("okx"),
           rate : EdgeRates ]
EdgeLists ==
    { rl \in UNION { [ 1..n -> EdgeObservations ] : n \in 0..MaxRates } :
        \A a, b \in 1..Len(rl) :
            a < b => VenueIndex(rl[a].exchange) <= VenueIndex(rl[b].exchange) }

\* the two scorers on a list of observations at the edges of the filters
InitEdge ==
    /\ funding_data = << >>
    /\ config = BacktestConfig
    /\ BTEntry
    /\ ExecEntry
    /\ scorer_config \in EdgeConfigs
    /\ rates \in EdgeLists
    /\ ScorerEntry
    /\ Fetched(rates)

SpecEdge == InitEdge /\ [][NextScore]_vars

\* base assets and the endings a venue gives their symbols: every suffix the
\* two extractions know, or none.  BUSD is an asset whose own name ends with
\* one of the suffixes.
BaseAssets == { "BTC", "SOL", "PEPE", "BUSD" }
SymbolEndings == { "", "USDT", "USD", "PERP", "-USDT-SWAP", "-USD-SWAP" }

\* the records a venue call can build for those symbols, at a rate that
\* alerts; fetch_binance keeps the symbols that contain "USDT"
SuffixedObservations ==
    { r \in [ exchange : VenueNames,
              symbol   : { B \o S : B \in BaseAssets, S \in SymbolEndings },
              rate     : { -2000 } ] :
        r.exchange = "binance" => contains(r.symbol, "USDT") }

\* the two scorers on the list of a scan that found one record
InitExtract ==
    /\ funding_data = << >>
    /\ config = BacktestConfig
    /\ BTEntry
    /\ ExecEntry
    /\ scorer_config = Config
    /\ rates \in { << r >> : r \in SuffixedObservations }
    /\ ScorerEntry
    /\ Fetched(rates)

SpecExtract == InitExtract /\ [][NextScore]_vars

----------------------------------------------------------------------------
(* Claims about the two-leg coordinator (ArbExecutor), under SpecExec *)

Completed(call) == call.pc \in { "returned", "raised" }
Resolved(order) == order.task \in { "filled", "failed" }

\* one leg filled and the other leg's place_order raised
OneLegFailed(call) ==
    \E leg \in Legs :
        call[leg].task = "filled" /\ call[Other(leg)].task = "failed"

\* C1: in open(), if one leg's fill succeeds and the other leg's fill raises a
\* fault, open() reports the distinct fault LegImbalanceError to the caller and
\* neither returns nor registers a completed ArbPosition.
C1_LegImbalanceReported ==
    \A c \in CallIds :
        ( calls[c].op = "open" /\ Completed(calls[c]) /\ OneLegFailed(calls[c]) )
        => /\ calls[c].pc = "raised"
           /\ calls[c].fault = "LegImbalanceError"
           /\ calls[c].pos = NoArb

\* C2: after any sequence of opens and closes, including ones in which one
\* leg's order fails, no position is left partially open or partially closed:
\* once a call and both its orders are through, either both legs took effect
\* at their venues and the call registered (removed) the position, or neither
\* leg took effect and the table is as before; never exactly one leg.
C2_NoPartialPosition ==
    \A c \in CallIds :
        ( /\ Completed(calls[c])
          /\ Resolved(calls[c].long) /\ Resolved(calls[c].short) )
        => /\ calls[c].long.task = "filled" <=> calls[c].short.task = "filled"
           /\ calls[c].pc = "returned" <=> calls[c].long.task = "filled"

\* two leg sizes agree within the tolerance; the tolerance taken here is half
\* of the larger leg, wider than any delta-neutral tolerance
WithinTolerance(a, b) ==
    LET diff == IF a >= b THEN a - b ELSE b - a
        larger == IF a >= b THEN a ELSE b
    IN  2 * diff < larger

\* C3: every ArbPosition recorded as open has long-leg and short-leg sizes
\* that match within the tolerance; when the two legs' filled sizes diverge
\* beyond it, open() surfaces a fault instead of recording the position.
C3_LegsWithinTolerance ==
    /\ \A id \in DOMAIN active_positions :
         WithinTolerance(active_positions[id].long_leg.size,
                         active_positions[id].short_leg.size)
    /\ \A c \in CallIds :
         ( /\ calls[c].op = "open" /\ Completed(calls[c])
           /\ calls[c].long.task = "filled" /\ calls[c].short.task = "filled"
           /\ ~WithinTolerance(calls[c].long.filled_size,
                               calls[c].short.filled_size) )
         => calls[c].pc = "raised"

\* the ArbPosition an open call is to register under id: a function of the two
\* orders and their fills alone, not of the order in which the legs filled
PositionOf(call, id) ==
    ArbPosition(id,
        Position(call.long.exchange, call.long.symbol, "long",
                 call.long.filled_size, FillPrice),
        Position(call.short.exchange, call.short.symbol, "short",
                 call.short.filled_size, FillPrice))

C4_Step ==
    /\ \A c \in CallIds :
         \* both orders are issued before either leg is awaited or resolves
         /\ ( calls'[c].pc # "idle" /\ calls'[c].fault \notin { "KeyError", "ValueError" } )
            => ( calls'[c].long.task # "none" /\ calls'[c].short.task # "none" )
         /\ ( \E leg \in Legs : Resolved(calls'[c][leg]) )
            => ( \A leg \in Legs : calls'[c][leg].task # "none" )
         \* a call returns only after both fills have completed
         /\ ( calls'[c].pc = "returned" /\ calls[c].pc # "returned" )
            => ( calls[c].long.task = "filled" /\ calls[c].short.task = "filled" )
    \* the table changes only in the step in which a call returns, both its
    \* fills done: an open adds its position, a close removes its id
    /\ active_positions' # active_positions
       => \E c \in CallIds :
            /\ calls[c].pc = "awaiting" /\ calls'[c].pc = "returned"
            /\ calls[c].long.task = "filled" /\ calls[c].short.task = "filled"
            /\ calls[c].op = "open" =>
                 /\ active_positions' =
                       PutKey(active_positions, calls'[c].pos_id,
                              PositionOf(calls[c], calls'[c].pos_id))
                 /\ calls'[c].pos = PositionOf(calls[c], calls'[c].pos_id)
            /\ calls[c].op = "close" =>
                 active_positions' = DelKey(active_positions, calls[c].pos_id)

\* C4: in open() and close() both leg orders are issued before either is
\* awaited, and in every interleaving of the two fills the ArbPosition is
\* registered as open (removed as closed) only after both fills have
\* completed; the resulting position is the same whichever leg fills first.
C4_BothLegsAwaited == [][C4_Step]_vars

C4_Witness ==
    \E c \in CallIds, d \in CallIds :
        /\ calls[c].op = "open" /\ calls[c].pc = "returned"
        /\ calls[c].first = "short"
        /\ calls[d].op = "close" /\ calls[d].pc = "returned"
        /\ calls[d].first = "long"
        /\ calls[d].pos_id = calls[c].pos_id
        /\ calls[d].pos_id \notin DOMAIN active_positions

\* C8: close(position_id) takes effect once per position under any
\* interleaving of close calls: a close of an id that is not in the table
\* fails with the not-found fault without issuing an order, and two
\* overlapping closes of the same id never both submit closing orders.
C8_CloseOnce ==
    /\ \A c \in CallIds :
         ( calls[c].op = "close" /\ calls[c].fault = "ValueError" )
         => ( calls[c].long.task = "none" /\ calls[c].short.task = "none" )
    /\ \A c \in CallIds, d \in CallIds :
         ( /\ c # d
           /\ calls[c].op = "close" /\ calls[d].op = "close"
           /\ calls[c].pos_id = calls[d].pos_id
           /\ calls[c].pc = "awaiting" )
         => calls[d].long.task = "none"

----------------------------------------------------------------------------
(* Claims about the lifecycle engine (backtest.run_backtest), under SpecBT *)

\* the rates of a series, in order
RatesOf(d) == [ k \in 1..Len(d) |-> d[k].fundingRate ]

\* the 0-based row of df whose timestamp is t
RowOfTime(d, t) == CHOOSE j \in 0..(Len(d) - 1) : TimeAt(d, j) = t

\* the row at which trade k of trs closed, -1 before the first trade
CloseRow(d, trs, k) == IF k = 0 THEN -1 ELSE RowOfTime(d, trs[k].exit_time)

Running == bt_pc \in { "loop", "done" } /\ df # << >>

ExampleSeries == << -2000, -1800, -200, 0 >>

\* C5: the engine opens at the first Idle period whose rate is strictly below
\* entry_threshold and closes at the first later period whose rate is strictly
\* above exit_threshold, with periods held = close index - open index; the
\* series [-0.002, -0.0018, -0.0002, 0.0] with the default thresholds gives
\* exactly one trade, opened at index 0 and closed at index 2, 2 periods held,
\* and no position re-opens at index 3.
C5_OpenCloseRule ==
    Running =>
      LET n == Len(trades)
          last == CloseRow(df, trades, n)
      IN  /\ \A k \in 1..n :
               LET e == RowOfTime(df, trades[k].entry_time)
                   x == RowOfTime(df, trades[k].exit_time)
                   prev == CloseRow(df, trades, k - 1)
               IN  /\ prev < e /\ e < x
                   /\ RateAt(df, e) < config.entry_threshold
                   /\ \A j \in (prev + 1)..(e - 1) :
                        ~(RateAt(df, j) < config.entry_threshold)
                   /\ RateAt(df, x) > config.exit_threshold
                   /\ \A j \in (e + 1)..(x - 1) :
                        ~(RateAt(df, j) > config.exit_threshold)
                   /\ trades[k].periods = x - e
          /\ position_open =>
               /\ last < entry_idx /\ entry_idx < i
               /\ RateAt(df, entry_idx) < config.entry_threshold
               /\ entry_rate = RateAt(df, entry_idx)
               /\ \A j \in (last + 1)..(entry_idx - 1) :
                    ~(RateAt(df, j) < config.entry_threshold)
               /\ \A j \in (entry_idx + 1)..(i - 1) :
                    ~(RateAt(df, j) > config.exit_threshold)
          /\ ~position_open =>
               \A j \in (last + 1)..(i - 1) :
                    ~(RateAt(df, j) < config.entry_threshold)
          /\ ( /\ bt_pc = "done"
               /\ RatesOf(funding_data) = ExampleSeries
               /\ config = BacktestConfig )
             => /\ ~position_open
                /\ result.total_trades = 1
                /\ Len(result.trades) = 1
                /\ result.trades[1].entry_time = TimeAt(df, 0)
                /\ result.trades[1].exit_time = TimeAt(df, 2)
                /\ result.trades[1].periods = 2
                /\ events = << << "open", 0 >>, << "close", 2 >> >>

C5_Witness ==
    /\ bt_pc = "done"
    /\ RatesOf(funding_data) = ExampleSeries
    /\ config = BacktestConfig
    /\ Len(trades) = 1
    /\ trades[1].periods = 2

\* the funding the loop accrued into total_funding while trade t was Open:
\* the rows after its entry row up to and including its exit row
AccruedWhileOpen(d, t, cfg) ==
    LET e == RowOfTime(d, t.entry_time)
        x == RowOfTime(d, t.exit_time)
    IN  SumSeq([ k \in 1..(x - e) |-> (0 - RateAt(d, e + k)) * cfg.position_size ])

\* C6: whenever the engine is Idle after processing a series, the reported P&L
\* equals total funding minus total costs, and the funding recorded in each
\* ClosedTrade equals the funding accrued into the cumulative total while that
\* position was Open.
C6_PnlIsFundingMinusCosts ==
    ( bt_pc = "done" /\ df # << >> /\ ~position_open ) =>
      /\ result.total_pnl = result.total_funding - result.total_costs
      /\ \A k \in 1..Len(trades) :
           trades[k].funding_collected = AccruedWhileOpen(df, trades[k], config)

\* the Open->Closed transitions taken so far
Closes == { k \in 1..Len(events) : events[k][1] = "close" }

\* C7: every position that closes produces exactly one ClosedTrade: the number
\* of trade records equals the number of Open->Closed transitions, opens and
\* closes strictly alternate (a new position opens only after the previous one
\* closed, never on the observation that closed it), and every ClosedTrade has
\* periods held >= 1.
C7_OneTradePerClosure ==
    Running =>
      /\ Len(trades) = Cardinality(Closes)
      /\ \A k \in 1..Len(events) :
           /\ events[k][1] = (IF k % 2 = 1 THEN "open" ELSE "close")
           /\ k > 1 => events[k - 1][2] < events[k][2]
      /\ position_open <=> (Len(events) % 2 = 1)
      /\ \A k \in 1..Len(trades) :
           /\ trades[k].periods >= 1
           /\ trades[k].entry_time = TimeAt(df, events[2 * k - 1][2])
           /\ trades[k].exit_time = TimeAt(df, events[2 * k][2])
      /\ bt_pc = "done" =>
           /\ result.total_trades = Cardinality(Closes)
           /\ result.trades = trades

C7_Witness ==
    /\ bt_pc = "done"
    /\ Len(trades) = 2
    /\ Cardinality(Closes) = 2
    /\ \E k \in 1..2 : trades[k].periods = 1

\* C9: a position still Open when the series ends is excluded from the
\* completed-trade statistics (funding and cost totals count closed trades
\* only) and is reported separately in the result as still open.
C9_StillOpenReported ==
    ( bt_pc = "done" /\ df # << >> /\ position_open ) =>
      /\ "still_open" \in DOMAIN result
      /\ result.total_trades = Len(trades)
      /\ result.total_costs = SumSeq([ k \in 1..Len(trades) |-> trades[k].costs ])
      /\ result.total_funding =
           SumSeq([ k \in 1..Len(trades) |-> AccruedWhileOpen(df, trades[k], config) ])

\* C10: for every non-empty series in which no rate is below entry_threshold,
\* zero positions open, zero ClosedTrades are produced, no funding and no cost
\* accrue, and win rate, average hold and P&L per trade are reported as 0.
C10_NeverCrossed ==
    ( /\ bt_pc = "done"
      /\ funding_data # << >>
      /\ \A k \in 1..Len(funding_data) :
           ~(funding_data[k].fundingRate < config.entry_threshold) )
    => /\ events = << >>
       /\ ~position_open
       /\ DOMAIN result = DOMAIN Metrics(df, config, << >>, 0, 0, 0)
       /\ result.total_trades = 0
       /\ result.trades = << >>
       /\ result.total_funding = 0
       /\ result.total_costs = 0
       /\ result.total_pnl = 0
       /\ result.win_rate = Zero
       /\ result.avg_hold_periods = Zero
       /\ result.pnl_per_trade = Zero

C10_Witness ==
    /\ bt_pc = "done"
    /\ Len(funding_data) >= 2
    /\ \A k \in 1..Len(funding_data) :
         ~(funding_data[k].fundingRate < config.entry_threshold)
    /\ \E k \in 1..Len(funding_data) :
         funding_data[k].fundingRate = config.entry_threshold
    /\ result.total_trades = 0
    /\ result.win_rate = Zero


\* C11: given an empty historical series, run_backtest returns a result whose
\* aggregate statistics (total trades, win rate, average hold, P&L) are all
\* present and equal to 0.
C11_EmptySeriesNeutral ==
    ( bt_pc = "done" /\ funding_data = << >> ) =>
      /\ { "total_trades", "win_rate", "avg_hold_periods", "total_pnl" }
           \subseteq DOMAIN result
      /\ result.total_trades = 0
      /\ result.win_rate = Zero
      /\ result.avg_hold_periods = Zero
      /\ result.total_pnl = 0

\* C12: the engine never runs a series under a configuration whose entry
\* threshold is not strictly below its exit threshold: such a configuration
\* is refused before the first observation is processed, so the run neither
\* enters the loop nor returns a result other than a configuration error.
C12_InvertedConfigRejected ==
    ( config.entry_threshold >= config.exit_threshold ) =>
      /\ bt_pc # "loop"
      /\ bt_pc = "done" =>
           /\ "error" \in DOMAIN result
           /\ result.error = "ConfigurationError"


----------------------------------------------------------------------------
(* Claims about the aggregate fetch and the monitoring loop, under SpecMon *)

\* the fetch of the current scan has returned to its awaiter
FetchOver == mon_pc \in { "fetched", "sleeping", "done", "crashed" }

\* the records of venue v in a list of rates
RecordsOf(rs, v) == SelectSeq(rs, LAMBDA r : r.exchange = v)

\* C13: whichever of the four venue calls fail, the aggregate fetch hands its
\* caller exactly the records of the venues that succeeded, and no fault: the
\* list holds every record of each venue whose call returned, no record of a
\* venue whose call raised, and nothing else.
C13_PartialResults ==
    FetchOver =>
      /\ ~fetched.raised
      /\ mon_pc # "crashed"
      /\ \A k \in 1..Len(fetched.rates) : fetched.rates[k].exchange \in VenueNames
      /\ \A v \in VenueNames :
           RecordsOf(fetched.rates, v) =
             IF tasks[v].state = "done" THEN tasks[v].result ELSE << >>

\* one venue of four has failed and the fetch has returned the records of the
\* other three
C13_Witness ==
    /\ mon_pc = "fetched"
    /\ Cardinality(FailedVenues(tasks)) = 1
    /\ \A v \in VenueNames : tasks[v].state = "done" => Len(tasks[v].result) = 1
    /\ Len(fetched.rates) = 3

\* C14: the aggregate fetch returns only once every venue call has returned
\* or raised; it never returns while a call is pending, also not when another
\* call has raised already.
C14_ReturnsAfterAllResolved ==
    FetchOver => \A v \in VenueNames : tasks[v].state \in { "done", "failed" }

\* the fetch has returned after a timeout of one venue and a failure of
\* another, the remaining calls having returned their records
C14_Witness ==
    /\ mon_pc = "fetched"
    /\ \E v, w \in VenueNames :
         /\ tasks[v] = Raised("TimeoutError")
         /\ tasks[w] = Raised("ClientError")
         /\ \A u \in VenueNames \ { v, w } :
              tasks[u].state = "done" /\ tasks[u].result # << >>

\* C16: the monitoring loop stops on a cancellation only between two scans:
\* every scan that was started has run to its end (fetch, scoring, snapshot)
\* when the loop is cancelled, and no venue call of it was cut off.
C16_CancelBetweenScans ==
    mon_pc = "cancelled" =>
      /\ Len(snapshots) = scans
      /\ \A v \in VenueNames : tasks[v].state # "cancelled"

----------------------------------------------------------------------------
(* Claims about the timeouts of the coordinator, under SpecExecLive *)

\* C15: every order submission is bounded by a timeout: a call of
\* open_position or close_position that waits for its legs eventually returns
\* or raises, also when a leg never answers.
C15_CallsComplete ==
    \A c \in CallIds :
        (calls[c].pc = "awaiting") ~> (calls[c].pc \in { "returned", "raised" })

----------------------------------------------------------------------------
(* Claims about the scorers (score_all, find_opportunities), under SpecScore *)

\* C17: no observation with a funding rate >= 0, zero included, yields an
\* opportunity, whatever its exchange and symbol, the whitelist and the
\* thresholds: calculate_opportunity returns None for it, and neither the
\* list of score_all nor the list of a scan holds an entry of such a rate.
C17_NonNegativeRejected ==
    /\ \A k \in 1..Len(scored) :
         scored[k].rate_data.rate >= 0 => scored[k].opp = None
    /\ \A k \in 1..Len(opportunities) : opportunities[k].funding_rate < 0
    /\ \A k \in 1..Len(scan_opportunities) : scan_opportunities[k].rate < 0

\* both scorers have run on a list with a whitelisted observation of rate 0,
\* under a funding threshold of 0, and one of a positive rate
C17_Witness ==
    /\ sc_pc = "done"
    /\ mon_pc = "sleeping"
    /\ scorer_config.trading.min_funding_rate = 0
    /\ \E k, j \in 1..Len(rates) :
         /\ rates[k].rate = 0
         /\ rates[k].symbol = "BTCUSDT"
         /\ rates[j].rate > 0

\* C18: no observation whose base asset is outside the whitelist yields an
\* opportunity, whatever its rate and the costs: calculate_opportunity returns
\* None for it, and every entry of the list of score_all (of a scan) has its
\* base asset in the configured whitelist (in WHITELIST).
C18_NotWhitelistedRejected ==
    /\ \A k \in 1..Len(scored) :
         extract_base_asset(scored[k].rate_data.symbol)
             \notin scorer_config.symbol_whitelist
           => scored[k].opp = None
    /\ \A k \in 1..Len(opportunities) :
         extract_base_asset(opportunities[k].symbol)
             \in scorer_config.symbol_whitelist
    /\ \A k \in 1..Len(scan_opportunities) :
         extract_base(scan_opportunities[k].symbol) \in WHITELIST

\* both scorers have run on two observations of a rate beyond every
\* threshold: one of an asset in no whitelist, one of an asset missing from
\* the configured whitelist only
C18_Witness ==
    /\ sc_pc = "done"
    /\ mon_pc = "sleeping"
    /\ scorer_config.symbol_whitelist = { "ETH" }
    /\ \E k, j \in 1..Len(rates) :
         /\ rates[k].symbol = "XYZUSDT" /\ rates[k].rate = -2000
         /\ rates[j].symbol = "BTCUSDT" /\ rates[j].rate = -2000

\* the symbols of the venues in ascending order of their strings
SymbolsAscending ==
    << "ADA", "BTC-USDT-SWAP", "BTCUSDT", "ETHUSDT", "XYZUSDT" >>

\* (exchange, symbol) of a is not above that of b; the venues are gathered in
\* ascending order of their names
PairAscending(a, b) ==
    LET rank(sym) == CHOOSE n \in 1..Len(SymbolsAscending) :
                          SymbolsAscending[n] = sym
    IN  \/ VenueIndex(a.exchange) < VenueIndex(b.exchange)
        \/ /\ a.exchange = b.exchange
           /\ rank(a.symbol) <= rank(b.symbol)

\* C19: in the list score_all returns, two opportunities of equal net yield
\* stand in descending order of liquidity_score and, that being equal too, in
\* ascending order of (exchange, symbol).
C19_TieOrder ==
    sc_pc = "done" =>
      \A k \in 1..(Len(opportunities) - 1) :
          LET a == opportunities[k]
              b == opportunities[k + 1]
          IN  a.net_yield_annualized = b.net_yield_annualized =>
                \/ a.liquidity_score > b.liquidity_score
                \/ /\ a.liquidity_score = b.liquidity_score
                   /\ PairAscending(a, b)

\* the net yield and the cost fields of a result of calculate_opportunity
YieldAndCosts(opp) ==
    IF opp = None THEN None
    ELSE [ net_yield_annualized |-> opp.net_yield_annualized,
           net_yield_8h         |-> opp.net_yield_8h,
           entry_cost           |-> opp.entry_cost,
           exit_cost            |-> opp.exit_cost,
           slippage_cost        |-> opp.slippage_cost,
           borrow_cost_8h       |-> opp.borrow_cost_8h ]

----------------------------------------------------------------------------
(* Claims about base-asset extraction, under SpecExtract *)

ListedSuffixes == { "USDT", "USD", "PERP", "-USDT-SWAP", "-USD-SWAP" }

\* the symbol with the longest listed suffix it ends with removed
LongestSuffixRemoved(symbol) ==
    LET ends == { S \in ListedSuffixes : endswith(symbol, S) }
    IN  IF ends = { } THEN symbol
        ELSE LET S == CHOOSE S \in ends : \A T \in ends : Len(T) <= Len(S)
             IN  SubSeq(symbol, 1, Len(symbol) - Len(S))

\* C21: base-asset extraction removes the longest listed suffix: for every
\* base B and every suffix S of USDT, USD, PERP, -USDT-SWAP, -USD-SWAP the
\* symbol B+S resolves to B (BTC-USDT-SWAP to BTC), in the scorer and in the
\* monitor alike, which return the same base for every symbol, as operators
\* and in the opportunities they output.
C21_BaseExtraction ==
    /\ \A k \in 1..Len(rates) :
         LET symbol == rates[k].symbol
         IN  /\ extract_base_asset(symbol) = LongestSuffixRemoved(symbol)
             /\ extract_base(symbol) = extract_base_asset(symbol)
             /\ \A B \in BaseAssets, S \in ListedSuffixes :
                  symbol = B \o S =>
                    /\ extract_base_asset(symbol) = B
                    /\ extract_base(symbol) = B
    /\ \A k \in 1..Len(opportunities) :
         opportunities[k].base_asset =
           LongestSuffixRemoved(opportunities[k].symbol)
    /\ \A k \in 1..Len(scan_opportunities) :
         scan_opportunities[k].base =
           LongestSuffixRemoved(scan_opportunities[k].symbol)

\* both scorers have output the opportunity of BTC-USDT-SWAP, with base BTC
C21_Witness ==
    /\ sc_pc = "done"
    /\ mon_pc = "sleeping"
    /\ rates[1].symbol = "BTC-USDT-SWAP"
    /\ Len(opportunities) = 1
    /\ opportunities[1].base_asset = "BTC"
    /\ Len(scan_opportunities) = 1
    /\ scan_opportunities[1].base = "BTC"

----------------------------------------------------------------------------
(* Claims about malformed records, under SpecParse *)

\* the response body without its malformed items
RECURSIVE WithoutMalformed(_)
WithoutMalformed(payload) ==
    IF payload = << >> THEN << >>
    ELSE IF Malformed(payload[1]) THEN WithoutMalformed(Tail(payload))
         ELSE << payload[1] >> \o WithoutMalformed(Tail(payload))

\* the rates of a scan had the venues' malformed items not been sent
RatesWithoutMalformed ==
    Concat([ n \in 1..Len(Venues) |->
               fetch_venue(Venues[n],
                           WithoutMalformed(tasks[Venues[n]].payload)).result ])

\* C22: a record whose rate is missing or not a number yields no observation
\* and no opportunity and raises no fault, and the other records of the batch
\* are still processed: the rates and the opportunities of the scan are those
\* of the same responses with the malformed records removed, and no venue
\* call has raised.
C22_MalformedSkipped ==
    mon_pc = "sleeping" =>
      /\ \A v \in VenueNames : tasks[v].state = "done"
      /\ fetched.rates = RatesWithoutMalformed
      /\ scan_opportunities = find_opportunities(RatesWithoutMalformed)

----------------------------------------------------------------------------
(* Claims about the filters of the two scorers, under SpecEdge and SpecScore *)

\* the observation an opportunity of score_all (of a scan) was made from
ObservationOf(opp) ==
    [ exchange |-> opp.exchange, symbol |-> opp.symbol,
      rate     |-> IF "funding_rate" \in DOMAIN opp THEN opp.funding_rate
                   ELSE opp.rate ]

\* the sign, whitelist and funding-threshold filters of score_all, and those
\* of a scan (which turns away a rate equal to its threshold, see C25)
PassesScorerFilters(cfg, r) ==
    /\ r.rate < 0
    /\ LongestSuffixRemoved(r.symbol) \in cfg.symbol_whitelist
    /\ r.rate <= cfg.trading.min_funding_rate
PassesScanFilters(r) ==
    /\ r.rate < 0
    /\ LongestSuffixRemoved(r.symbol) \in WHITELIST
    /\ r.rate < ALERT_FUNDING_THRESHOLD

Occurrences(s, x) == Cardinality({ k \in 1..Len(s) : s[k] = x })

\* the observations a list of opportunities was made from
ObservationsOf(opps) == [ j \in 1..Len(opps) |-> ObservationOf(opps[j]) ]

\* the observation is accepted by score_all (by a scan): it passes the
\* filters with a net yield of at least the minimum
AcceptedByScorer(r) ==
    /\ PassesScorerFilters(scorer_config, r)
    /\ calculate_opportunity(scorer_config, r, 0).net_yield_annualized
         >= scorer_config.trading.min_net_yield_pct * 1000000
AcceptedByScan(r) ==
    /\ PassesScanFilters(r)
    /\ calculate_net_yield(r.rate) >= MIN_NET_YIELD_APR * 1000000

\* C24: the output list is ordered by non-increasing net yield and is a
\* permutation of the accepted observations: every accepted observation
\* stands in it as often as in the input, and nothing else does.
C24_SortedPermutation ==
    /\ sc_pc = "done" =>
         /\ \A j \in 1..(Len(opportunities) - 1) :
              opportunities[j].net_yield_annualized
                >= opportunities[j + 1].net_yield_annualized
         /\ Len(opportunities) = Len(SelectSeq(rates, AcceptedByScorer))
         /\ \A k \in 1..Len(rates) :
              AcceptedByScorer(rates[k]) =>
                Occurrences(ObservationsOf(opportunities), rates[k])
                  = Occurrences(rates, rates[k])
    /\ mon_pc = "sleeping" =>
         /\ \A j \in 1..(Len(scan_opportunities) - 1) :
              scan_opportunities[j].net_yield_apr
                >= scan_opportunities[j + 1].net_yield_apr
         /\ Len(scan_opportunities) = Len(SelectSeq(rates, AcceptedByScan))
         /\ \A k \in 1..Len(rates) :
              AcceptedByScan(rates[k]) =>
                Occurrences(ObservationsOf(scan_opportunities), rates[k])
                  = Occurrences(rates, rates[k])

\* both scorers have output two opportunities of different net yield, the
\* second observation of the input first
C24_Witness ==
    /\ sc_pc = "done"
    /\ mon_pc = "sleeping"
    /\ Len(rates) = 2
    /\ Len(opportunities) = 2
    /\ ObservationOf(opportunities[1]) = rates[2]
    /\ opportunities[1].net_yield_annualized
         > opportunities[2].net_yield_annualized
    /\ Len(scan_opportunities) = 2
    /\ ObservationOf(scan_opportunities[1]) = rates[2]
    /\ scan_opportunities[1].net_yield_apr
         > scan_opportunities[2].net_yield_apr

\* C25: the funding-threshold filter rejects an observation exactly when its
\* rate is above the minimum funding threshold; a rate equal to the threshold
\* is not rejected, and score_all and the scan apply this same rule at the
\* boundary: of the observations that pass the sign and whitelist filters and
\* reach the minimum yield, the output holds those whose rate is not above
\* the threshold of the path.
C25_ThresholdBoundary ==
    /\ sc_pc = "done" =>
         \A k \in 1..Len(rates) :
             ( /\ rates[k].rate < 0
               /\ LongestSuffixRemoved(rates[k].symbol)
                    \in scorer_config.symbol_whitelist )
             => /\ scored[k].opp = None
                     <=> rates[k].rate > scorer_config.trading.min_funding_rate
                /\ ( /\ scored[k].opp # None
                     /\ scored[k].opp.net_yield_annualized
                          >= scorer_config.trading.min_net_yield_pct * 1000000 )
                   => \E j \in 1..Len(opportunities) :
                          ObservationOf(opportunities[j]) = rates[k]
    /\ mon_pc = "sleeping" =>
         \A k \in 1..Len(rates) :
             ( /\ rates[k].rate < 0
               /\ LongestSuffixRemoved(rates[k].symbol) \in WHITELIST
               /\ calculate_net_yield(rates[k].rate)
                    >= MIN_NET_YIELD_APR * 1000000 )
             => ( ( \E j \in 1..Len(scan_opportunities) :
                        ObservationOf(scan_opportunities[j]) = rates[k] )
                  <=> ~(rates[k].rate > ALERT_FUNDING_THRESHOLD) )

\* the maker and taker fee the configuration gives a venue (units of 1e-6)
MakerFee(cfg, exchange) ==
    cfg.costs[CHOOSE f \in DOMAIN cfg.costs : f = exchange \o "_maker"]
TakerFee(cfg, exchange) ==
    cfg.costs[CHOOSE f \in DOMAIN cfg.costs : f = exchange \o "_taker"]

\* funding periods a year, and the periods the costs are amortized over
PeriodsPerYear == 3 * 365
AmortizedOver == 3

\* C26: for every opportunity, entry_cost is twice the venue's taker fee,
\* exit_cost twice its maker fee, slippage_cost twice the slippage estimate;
\* the net yield per period is -rate - borrow per period
\* - (entry_cost + exit_cost + slippage_cost) / N with N = 3 periods, and the
\* annualized net yield is that times the periods of a year times 100.  The
\* per-period yield is a quotient over (periods of a year) * N, compared by
\* its numerator.
C26_CostIdentities ==
    \A k \in 1..Len(scored) :
        LET opp == scored[k].opp
            rate == scored[k].rate_data.rate
            exchange == scored[k].rate_data.exchange
        IN  opp # None =>
              /\ opp.entry_cost = 2 * TakerFee(scorer_config, exchange)
              /\ opp.exit_cost = 2 * MakerFee(scorer_config, exchange)
              /\ opp.slippage_cost = 2 * scorer_config.costs.slippage_estimate
              /\ opp.borrow_cost_8h.num * PeriodsPerYear
                   = scorer_config.costs.default_borrow_apr
                       * opp.borrow_cost_8h.den
              /\ opp.net_yield_8h.den = PeriodsPerYear * AmortizedOver
              /\ opp.net_yield_8h.num
                   = (-rate) * PeriodsPerYear * AmortizedOver
                     - scorer_config.costs.default_borrow_apr * AmortizedOver
                     - ( opp.entry_cost + opp.exit_cost + opp.slippage_cost )
                         * PeriodsPerYear
              /\ opp.net_yield_annualized * AmortizedOver
                   = opp.net_yield_8h.num * 100

\* a hyperliquid observation at -0.2 % has been scored: costs 0.10 % in,
\* 0.04 % out, 0.10 % slippage, net 101.4 % a year
C26_Witness ==
    \E k \in 1..Len(scored) :
        /\ scored[k].rate_data.exchange = "hyperliquid"
        /\ scored[k].rate_data.rate = -2000
        /\ scored[k].opp # None
        /\ scored[k].opp.entry_cost = 1000
        /\ scored[k].opp.exit_cost = 400
        /\ scored[k].opp.slippage_cost = 1000
        /\ scored[k].opp.net_yield_annualized = 101400000

----------------------------------------------------------------------------
(* Claims about the accounting of the backtest, under SpecBT *)

\* C27: on the step from Idle to Open the engine records the entry rate and
\* the entry index and adds exactly (entry_cost + slippage) * position_size
\* to the cumulative cost, leaving the cumulative funding unchanged; an Idle
\* period whose rate is not strictly below entry_threshold changes no engine
\* state (the loop moves on to the next row).
C27_Step ==
    ( bt_pc = "loop" /\ ~position_open /\ i' = i + 1 ) =>
      IF RateAt(df, i) < config.entry_threshold
      THEN /\ position_open'
           /\ entry_rate' = RateAt(df, i)
           /\ entry_idx' = i
           /\ total_costs' = total_costs
                + (config.entry_cost + config.slippage) * config.position_size
           /\ UNCHANGED << total_funding, total_pnl, trades >>
      ELSE UNCHANGED << position_open, entry_rate, entry_idx, total_costs,
                        total_funding, total_pnl, trades >>
C27_IdleStep == [][C27_Step]_vars

\* the engine has passed a row at the entry threshold without entering and
\* entered on the next row, strictly below it: one entry charge, no funding
C27_Witness ==
    /\ bt_pc = "loop"
    /\ i = 2
    /\ RateAt(df, 0) = config.entry_threshold
    /\ RateAt(df, 1) < config.entry_threshold
    /\ position_open
    /\ entry_idx = 1
    /\ entry_rate = RateAt(df, 1)
    /\ total_costs
         = (config.entry_cost + config.slippage) * config.position_size
    /\ total_funding = 0

\* the sum of the costs the closed trades record
ClosedTradeCosts == SumSeq([ k \in 1..Len(trades) |-> trades[k].costs ])

\* C28: the costs each closed trade records are the costs accrued into
\* total_costs from its entry through its exit,
\* (entry_cost + slippage + exit_cost) * position_size
\* + borrow_rate_8h * position_size * periods held; so while a position is
\* open total_costs is ahead of the closed trades' costs by the entry charge
\* and the borrow of the periods held so far, and whenever the engine is Idle,
\* at the end of the series too, the trades' costs sum to total_costs.
C28_TradeCostsAccrued ==
    bt_pc \in { "loop", "done" } =>
      /\ \A k \in 1..Len(trades) :
           trades[k].costs
             = ( config.entry_cost + config.slippage + config.exit_cost )
                 * config.position_size
               + config.borrow_rate_8h * config.position_size
                   * (trades[k].exit_time - trades[k].entry_time)
      /\ position_open =>
           total_costs - ClosedTradeCosts
             = ( config.entry_cost + config.slippage ) * config.position_size
               + config.borrow_rate_8h * config.position_size
                   * (i - 1 - entry_idx)
      /\ ~position_open => total_costs = ClosedTradeCosts

\* a run has ended Idle after two trades
C28_Witness ==
    /\ bt_pc = "done"
    /\ ~position_open
    /\ Len(trades) = 2
    /\ total_costs = ClosedTradeCosts
    /\ total_costs > 0

----------------------------------------------------------------------------
(* Claims about the position table and the simulated venue *)

\* call c returns successfully in this step
Returns(c, op) ==
    /\ calls[c].op = op
    /\ calls[c].pc # "returned"
    /\ calls'[c].pc = "returned"

\* C29: every successful open() creates a new entry of the position table
\* under an identifier not in use, never overwriting an open position, so
\* that over any sequence of opens and closes, two opens in the same clock
\* second included, the table holds successful opens minus successful closes
\* entries: a returning open adds one entry and keeps the others, a returning
\* close removes one, and no other step changes the identifiers in use.
C29_Step ==
    /\ \A c \in CallIds :
         Returns(c, "open") =>
           /\ calls'[c].pos_id \notin DOMAIN active_positions
           /\ Cardinality(DOMAIN active_positions')
                = Cardinality(DOMAIN active_positions) + 1
           /\ \A id \in DOMAIN active_positions :
                /\ id \in DOMAIN active_positions'
                /\ active_positions'[id] = active_positions[id]
    /\ \A c \in CallIds :
         Returns(c, "close") =>
           Cardinality(DOMAIN active_positions')
             = Cardinality(DOMAIN active_positions) - 1
    /\ ( \A c \in CallIds : calls'[c].pc = "returned" => calls[c].pc = "returned" )
       => DOMAIN active_positions' = DOMAIN active_positions
C29_FreshIdentifier == [][C29_Step]_vars

\* the signed size of a filled order: long positive, short negative
Signed(order) ==
    IF order.side = "long" THEN order.filled_size ELSE 0 - order.filled_size

\* the signed net of the filled orders of a bag on one symbol
RECURSIVE SignedNetOf(_, _, _)
SignedNetOf(bag, todo, symbol) ==
    IF todo = { } THEN 0
    ELSE LET order == CHOOSE o \in todo : TRUE
         IN  (IF order.symbol = symbol /\ order.status = "filled"
              THEN CopiesIn(order, bag) * Signed(order) ELSE 0)
             + SignedNetOf(bag, todo \ { order }, symbol)
SignedNet(bag, symbol) == SignedNetOf(bag, BagToSet(bag), symbol)

\* C30: in the simulated venue client, after any sequence of filled orders on
\* one symbol the stored position equals the signed net of all the filled
\* orders: none when the net is zero, otherwise one of size |net| > 0 on the
\* side of the net, so that an opposite-side order larger than the position
\* leaves the residual as a position on the opposite side.
C30_SignedNet ==
    \A v \in Clients, symbol \in Symbols :
        LET net == SignedNet(orders[v], symbol)
        IN  IF net = 0 THEN symbol \notin DOMAIN positions[v]
            ELSE /\ symbol \in DOMAIN positions[v]
                 /\ positions[v][symbol].size > 0
                 /\ positions[v][symbol].size = (IF net > 0 THEN net ELSE 0 - net)
                 /\ positions[v][symbol].side
                      = (IF net > 0 THEN "long" ELSE "short")

\* the orders the two calls of a round trip have had filled on client v
RoundTripOrders(v) ==
    LET placed == { << c, leg >> \in (1..2) \X Legs :
                      /\ calls[c][leg].task = "filled"
                      /\ calls[c][leg].exchange = v }
        kinds == { calls[cl[1]][cl[2]] : cl \in placed }
    IN  [ o \in kinds |->
            Cardinality({ cl \in placed : calls[cl[1]][cl[2]] = o }) ]

\* side and size of what a client holds on a symbol
SideAndSize(ps, symbol) ==
    IF symbol \in DOMAIN ps
    THEN << ps[symbol].side, ps[symbol].size >>
    ELSE << "none", 0 >>

\* C31: round trip: whatever the two clients held before, and whichever
\* clients take the long and the short leg (one client for both included),
\* once open() and the close() of the position it returned have both
\* returned, each client holds on the symbol the side and size it held before
\* the open, and the position table is as before (empty).
C31_RoundTrip ==
    ( calls[1].op = "open" /\ calls[1].pc = "returned"
      /\ calls[2].op = "close" /\ calls[2].pc = "returned" ) =>
      /\ active_positions = EmptyDict
      /\ \A v \in Clients, symbol \in Symbols :
           SideAndSize(positions[v], symbol)
             = SideAndSize(HeldAfter(v, orders[v] (-) RoundTripOrders(v)),
                           symbol)

\* C32: open() naming a long or short venue that has no configured client
\* fails before any order is submitted to either venue and leaves the
\* position table and every venue's state unchanged: the step in which such
\* a call fails changes neither, the call holds no order, and no order of
\* any call is addressed to a venue without client.
C32_Step ==
    /\ \A c \in CallIds :
         ( calls[c].op = "none" /\ calls'[c].op = "open"
           /\ calls'[c].fault = "KeyError" )
         => /\ calls'[c].pc = "raised"
            /\ calls'[c].long = NoOrder
            /\ calls'[c].short = NoOrder
            /\ UNCHANGED << positions, orders, active_positions >>
    /\ \A c \in CallIds, leg \in Legs :
         calls'[c][leg] # NoOrder => calls'[c][leg].exchange \in Clients
    /\ \A c \in CallIds :
         ( calls'[c].op = "open" /\ calls'[c].pc = "returned" )
         => /\ calls'[c].long.exchange \in Clients
            /\ calls'[c].short.exchange \in Clients
C32_UnknownVenueFailsFirst == [][C32_Step]_vars

\* with a position open on both venues, an open() naming a venue without
\* client has failed, and the table and the venues still hold the position
C32_Witness ==
    /\ calls[1].op = "open"
    /\ calls[1].pc = "raised"
    /\ calls[1].fault = "KeyError"
    /\ calls[1].long = NoOrder
    /\ DOMAIN active_positions = { 0 }
    /\ "SOLUSDT" \in DOMAIN positions["binance"]
    /\ "SOLUSDT" \in DOMAIN positions["bybit"]
    /\ BagCardinality(orders["binance"]) = 1


\* the strategy whose thresholds the backtest was configured with
StrategyOf(cfg) ==
    CHOOSE s \in { Strategies[k] : k \in 1..Len(Strategies) } :
        /\ s.entry_thresh = cfg.entry_threshold
        /\ s.exit_thresh = cfg.exit_threshold

PeriodsOf(trs) == [ k \in 1..Len(trs) |-> trs[k].periods ]

\* C33: on the same series and with the same pair of thresholds, run_backtest
\* and simulate_realistic_strategy open and close at the same rows, and count
\* the same number of trades with the same periods held in each
C33_SameDecisions ==
    ( /\ bt_pc = "done"
      /\ funding_data # << >>
      /\ strategies # NoResult )
    => LET r == strategies[StrategyOf(config).name]
       IN  /\ r.events = events
           /\ r.total_trades = Len(trades)
           /\ r.total_trades = result.total_trades
           /\ PeriodsOf(r.trades) = PeriodsOf(trades)

\* both have run on a series whose first rate equals the entry threshold and
\* is passed over, the trade being entered on the second row and closed later
C33_Witness ==
    /\ bt_pc = "done"
    /\ strategies # NoResult
    /\ funding_data # << >>
    /\ funding_data[1].fundingRate = config.entry_threshold
    /\ Len(trades) = 1
    /\ events[1] = << "open", 1 >>
    /\ strategies[StrategyOf(config).name].total_trades = 1
    /\ strategies[StrategyOf(config).name].trades[1].periods = 2


\* the lists of the venue calls that returned one, joined in the order the
\* calls were handed to the gather
InVenueOrder(ts) ==
    (IF ts["binance"].state = "done" THEN ts["binance"].result ELSE << >>)
    \o (IF ts["bybit"].state = "done" THEN ts["bybit"].result ELSE << >>)
    \o (IF ts["hyperliquid"].state = "done"
        THEN ts["hyperliquid"].result ELSE << >>)
    \o (IF ts["okx"].state = "done" THEN ts["okx"].result ELSE << >>)

\* C34: whatever the order in which the venue calls finish, a call that
\* finishes touches no other call's result, and the aggregated list is the
\* lists of the successful venues joined in the order binance, bybit,
\* hyperliquid, okx, every record once and as its venue call returned it
C34_Step ==
    /\ \A v \in VenueNames :
           (tasks[v].state = "pending" /\ tasks'[v].state \in { "done", "failed" })
           => /\ \A w \in VenueNames \ { v } : tasks'[w] = tasks[w]
              /\ fetched' = fetched
    /\ (mon_pc = "fetching" /\ mon_pc' = "fetched")
       => /\ tasks' = tasks
          /\ ~fetched'.raised
          /\ fetched'.rates = InVenueOrder(tasks)
          /\ Len(fetched'.rates)
               = Cardinality({ v \in VenueNames :
                                 tasks[v].state = "done" /\ tasks[v].result # << >> })
C34_VenueOrder == [][C34_Step]_vars

\* a fetch has returned the records of binance and of okx, in this order,
\* with bybit failed between them
C34_Witness ==
    /\ mon_pc = "fetched"
    /\ tasks["binance"].state = "done"
    /\ tasks["bybit"].state = "failed"
    /\ tasks["okx"].state = "done"
    /\ tasks["hyperliquid"].result = << >>
    /\ Len(tasks["binance"].result) = 1
    /\ Len(tasks["okx"].result) = 1
    /\ Len(fetched.rates) = 2
    /\ fetched.rates[1] = tasks["binance"].result[1]
    /\ fetched.rates[2] = tasks["okx"].result[1]


\* C35: in monitor_loop no scan ends the loop, whatever fails in it: a scan
\* whose scoring or snapshot write raises returns the empty list and appends
\* no snapshot, the loop is never left, and after every scan, failed or not,
\* the next scan starts
C35_ScanStep ==
    (mon_pc = "fetched" /\ mon_pc' # "fetched")
    => /\ mon_pc' = "sleeping"
       /\ \/ /\ snapshots' = snapshots
             /\ scan_opportunities' = << >>
          \/ /\ snapshots' = Append(snapshots,
                                   Snapshot(fetched.rates, scan_opportunities'))
             /\ scan_opportunities' = find_opportunities(fetched.rates)
C35_LoopSurvives ==
    /\ [](mon_pc \in { "start", "fetching", "fetched", "sleeping" })
    /\ [][C35_ScanStep]_vars
    /\ \A n \in 1..(MaxScans - 1) :
           (mon_pc = "fetched" /\ scans = n)
               ~> (mon_pc = "fetching" /\ scans = n + 1)

\* the first scan has failed after a fetch that brought records, without a
\* snapshot, and the second scan has started
C35_Witness ==
    /\ program = "monitor"
    /\ mon_pc = "fetching"
    /\ scans = 2
    /\ snapshots = << >>
    /\ scan_opportunities = << >>
    /\ fetched.rates # << >>

============================================================================
